---- MODULE Spec2Model ----
(***************************************************************************)
(* A state-machine model of the orchestration core of HiGHS                *)
(* (src/lp_data/Highs.cpp): class Highs with its pool of model objects     *)
(* hmos_, the presolve session presolve_, the caller-visible model status  *)
(* pair, solution_, basis_ and info_, and the public operations that       *)
(* change them.  Arrays are modelled by their lengths and a tag naming     *)
(* where their contents came from.  The presolve adapter, the LP solver    *)
(* and the structural-edit delegate are external: each call of one of them *)
(* is a step whose outcome is chosen from the outcomes its contract allows.*)
(***************************************************************************)
EXTENDS Integers, Sequences, FiniteSets, TLC

\* ------------------------------------------------------------------ bounds
MaxCol == 1
MaxRow == 1
MaxTime == 2   \* ticks of the clocks of timer_ over a behaviour

\* ------------------------------------------------------------------ values
NOTSET == "NOTSET"
LOAD_ERROR == "LOAD_ERROR"
MODEL_ERROR == "MODEL_ERROR"
PRESOLVE_ERROR == "PRESOLVE_ERROR"
SOLVE_ERROR == "SOLVE_ERROR"
POSTSOLVE_ERROR == "POSTSOLVE_ERROR"
MODEL_EMPTY == "MODEL_EMPTY"
PRIMAL_INFEASIBLE == "PRIMAL_INFEASIBLE"
PRIMAL_UNBOUNDED == "PRIMAL_UNBOUNDED"
OPTIMAL == "OPTIMAL"
REACHED_DUAL_OBJECTIVE_VALUE_UPPER_BOUND == "REACHED_DUAL_OBJECTIVE_VALUE_UPPER_BOUND"
REACHED_TIME_LIMIT == "REACHED_TIME_LIMIT"
REACHED_ITERATION_LIMIT == "REACHED_ITERATION_LIMIT"

ErrorStatuses ==
  {NOTSET, LOAD_ERROR, MODEL_ERROR, PRESOLVE_ERROR, SOLVE_ERROR, POSTSOLVE_ERROR}

HighsModelStatus ==
  ErrorStatuses \cup
  {MODEL_EMPTY, PRIMAL_INFEASIBLE, PRIMAL_UNBOUNDED, OPTIMAL,
   REACHED_DUAL_OBJECTIVE_VALUE_UPPER_BOUND, REACHED_TIME_LIMIT,
   REACHED_ITERATION_LIMIT}

\* HighsStatus, and the "worst wins" combination of interpretCallStatus
OK == "OK"
Warning == "Warning"
Error == "Error"

interpretCallStatus(call_status, from_return_status) ==
  IF call_status = Error \/ from_return_status = Error THEN Error
  ELSE IF call_status = Warning \/ from_return_status = Warning THEN Warning
  ELSE OK

highsStatusFromHighsModelStatus(model_status) ==
  CASE model_status \in ErrorStatuses -> Error
    [] model_status \in {REACHED_TIME_LIMIT, REACHED_ITERATION_LIMIT} -> Warning
    [] OTHER -> OK

\* option strings
off_string == "off"
on_string == "on"
choose_string == "choose"
simplex_string == "simplex"
ipm_string == "ipm"
FILENAME_DEFAULT == ""
HIGHS_CONST_INF == "inf"
SIMPLEX_STRATEGY_CHOOSE == "SIMPLEX_STRATEGY_CHOOSE"
SIMPLEX_STRATEGY_DUAL == "SIMPLEX_STRATEGY_DUAL"

MINIMIZE == "MINIMIZE"
MAXIMIZE == "MAXIMIZE"

\* PrimalDualStatus
STATUS_NOTSET == "STATUS_NOTSET"
STATUS_NO_SOLUTION == "STATUS_NO_SOLUTION"
STATUS_FEASIBLE_POINT == "STATUS_FEASIBLE_POINT"

\* ------------------------------------------------------------------ data
\* A HighsSolution: the lengths of its four arrays and the origin of the values.
EmptySolution ==
  [col_value |-> 0, row_value |-> 0, col_dual |-> 0, row_dual |-> 0, from |-> "none"]

FullSolution(lp, from) ==
  [col_value |-> lp.numCol_, row_value |-> lp.numRow_,
   col_dual |-> lp.numCol_, row_dual |-> lp.numRow_, from |-> from]

\* A HighsBasis: validity flag, lengths of the status arrays, origin.
EmptyBasis ==
  [valid_ |-> FALSE, col_status |-> 0, row_status |-> 0, from |-> "none"]

FullBasis(lp, valid, from) ==
  [valid_ |-> valid, col_status |-> lp.numCol_, row_status |-> lp.numRow_,
   from |-> from]

isSolutionConsistent(lp, solution) ==
  /\ solution.col_value = lp.numCol_
  /\ solution.col_dual = lp.numCol_
  /\ solution.row_value = lp.numRow_
  /\ solution.row_dual = lp.numRow_

isBasisConsistent(lp, basis) ==
  /\ basis.col_status = lp.numCol_
  /\ basis.row_status = lp.numRow_

\* HighsSolutionParams / HighsInfo: the statistics the orchestrator harvests.
\* The infeasibility magnitudes are 0 (within any tolerance) or 1 (beyond it).
ClearedInfo ==
  [primal_status |-> STATUS_NOTSET, dual_status |-> STATUS_NOTSET,
   max_primal_infeasibility |-> 0, max_dual_infeasibility |-> 0,
   from |-> "none"]

\* The statistics a solve may leave in a context, by final status.
SolutionParams(status, hmo_ix) ==
  IF status = OPTIMAL
  THEN {[primal_status |-> STATUS_FEASIBLE_POINT, dual_status |-> STATUS_FEASIBLE_POINT,
         max_primal_infeasibility |-> p, max_dual_infeasibility |-> 0,
         from |-> hmo_ix] : p \in {0, 1}}
  ELSE {[primal_status |-> STATUS_NO_SOLUTION, dual_status |-> STATUS_NO_SOLUTION,
         max_primal_infeasibility |-> 0, max_dual_infeasibility |-> 0,
         from |-> hmo_ix]}

EmptyLp == [numCol_ |-> 0, numRow_ |-> 0, sense_ |-> MINIMIZE]

Lps(sense) ==
  [numCol_ : 0..MaxCol, numRow_ : 0..MaxRow, sense_ : {sense}]

\* HighsOptions: the keys the orchestrator reads or overrides.
DefaultOptions ==
  [presolve |-> choose_string, solver |-> choose_string, run_crossover |-> TRUE,
   time_limit |-> HIGHS_CONST_INF,
   dual_objective_value_upper_bound |-> HIGHS_CONST_INF,
   highs_min_threads |-> 1, highs_max_threads |-> 8,
   simplex_strategy |-> SIMPLEX_STRATEGY_DUAL,
   model_file |-> FILENAME_DEFAULT]

\* The option sets a caller passes in with passHighsOptions.
CustomOptions ==
  [DefaultOptions EXCEPT !.presolve = on_string, !.solver = ipm_string,
                         !.run_crossover = FALSE, !.time_limit = "finite",
                         !.dual_objective_value_upper_bound = "finite",
                         !.highs_min_threads = 2]

OptionProfiles ==
  {DefaultOptions, [DefaultOptions EXCEPT !.presolve = off_string], CustomOptions}

\* A HighsModelObject.  lp names the LP it refers to: context 0 holds a
\* reference to lp_, a context made for presolve holds the reduced LP.
HighsModelObject(lp) ==
  [lp |-> lp,
   scaled_model_status_ |-> NOTSET, unscaled_model_status_ |-> NOTSET,
   solution_ |-> EmptySolution, basis_ |-> EmptyBasis,
   unscaled_solution_params_ |-> ClearedInfo,
   has_basis |-> FALSE, has_invert |-> FALSE]

\* PresolveComponent: the session of the presolve adapter.
ClearedPresolve ==
  [has_run_ |-> FALSE, presolve_status_ |-> "NotSet", reduced_lp |-> EmptyLp,
   reduced_solution_ |-> EmptySolution, recovered_solution_ |-> EmptySolution,
   cost_negations |-> 0, col_dual_negations |-> <<>>]

\* HighsTimer: is the run clock running, the accumulated readings of the run
\* clock and of the three stage clocks, and the reading the stage clock
\* started last had when it was started.
StoppedTimer ==
  [run_clock_running |-> FALSE, run_clock |-> 0, presolve_clock |-> 0,
   solve_clock |-> 0, postsolve_clock |-> 0, clock_start |-> 0]

\* ------------------------------------------------------------------ state
VARIABLES
  lp_,                  \* Highs::lp_ (dimensions and sense)
  options_,             \* Highs::options_
  hmos_,                \* Highs::hmos_, the pool of model objects
  presolve_,            \* Highs::presolve_
  timer_,               \* Highs::timer_ : the run clock and the stage clocks
  model_status_,        \* the unscaled (caller-visible) model status
  scaled_model_status_, \* the scaled model status
  solution_,            \* Highs::solution_
  basis_,               \* Highs::basis_
  info_,                \* Highs::info_
  run_,                 \* locals of the run() in progress, and its position
  gums_,                \* locals of the getUseModelStatus() in progress
  calls_,               \* stages invoked by the current (or last) run()
  last_                 \* the last public operation to return, and its result

vars ==
  <<lp_, options_, hmos_, presolve_, timer_, model_status_, scaled_model_status_,
    solution_, basis_, info_, run_, gums_, calls_, last_>>

IdleRun ==
  [pc |-> "idle", return_status |-> OK, solved_hmo |-> 0,
   presolve_status |-> "NotSet", postsolve_status |-> "NotSet",
   run_highs_clock_already_running |-> FALSE,
   save_dual_objective_value_upper_bound |-> HIGHS_CONST_INF,
   save_options |-> DefaultOptions, options_at_call |-> DefaultOptions,
   this_presolve_time |-> -1, this_solve_presolved_lp_time |-> -1,
   this_postsolve_time |-> -1, this_solve_original_lp_time |-> -1,
   initial_time |-> 0, this_solve_time |-> 0, sum_time |-> 0,
   finalized |-> 0, asserts_ok |-> TRUE]

IdleGums ==
  [pc |-> "idle", save_presolve |-> choose_string, primal_tolerance |-> 0,
   dual_tolerance |-> 0, rerun_from_logical_basis |-> FALSE]

\* No public operation is executing: the caller may start one.
Idle == run_.pc = "idle" /\ gums_.pc = "idle"

\* The caller-visible result fields and the pool, as one record that the
\* helpers below transform.
Top ==
  [hmos |-> hmos_, model_status |-> model_status_,
   scaled_model_status |-> scaled_model_status_, solution |-> solution_,
   basis |-> basis_, info |-> info_]

SetTop(t) ==
  /\ hmos_' = t.hmos
  /\ model_status_' = t.model_status
  /\ scaled_model_status_' = t.scaled_model_status
  /\ solution_' = t.solution
  /\ basis_' = t.basis
  /\ info_' = t.info

\* ------------------------------------------------------------------ clearing
clearModelStatus(t) ==
  [t EXCEPT !.model_status = NOTSET, !.scaled_model_status = NOTSET]

\* (variant) clearSolution that resizes the arrays and leaves info_ alone
clearSolutionArraysOnly(t) == [t EXCEPT !.solution = EmptySolution]

clearSolution(t) ==
  [t EXCEPT !.info.primal_status = STATUS_NOTSET,
            !.info.dual_status = STATUS_NOTSET,
            !.solution = EmptySolution]

clearBasis(t) == [t EXCEPT !.basis = EmptyBasis]

clearInfo(t) == [t EXCEPT !.info = ClearedInfo]

clearSolver(t) == clearInfo(clearBasis(clearSolution(clearModelStatus(t))))

\* ------------------------------------------------------------------ pool
original_hmo == 0

size(hmos) == Cardinality(DOMAIN hmos)

push_back(hmos, hmo) ==
  [i \in 0..size(hmos) |-> IF i < size(hmos) THEN hmos[i] ELSE hmo]

pop_back(hmos) == [i \in 0..(size(hmos) - 2) |-> hmos[i]]

\* Highs::Highs(), and the pool that reset() and clearModel() rebuild
FreshPool == push_back(<<>>, HighsModelObject("lp_"))

\* The LP a model object refers to
LpOf(hmo, lp, presolve) ==
  IF hmo.lp = "lp_" THEN lp ELSE presolve.reduced_lp

haveHmo == size(hmos_) > 0

\* ------------------------------------------------------------------ finalizer
\* Highs::beforeReturnFromRun: prune the pool, then clear what the scaled
\* status says cannot be kept.  asserts_ok records whether the assertions of
\* the function hold.
\* (variant) a switch without the label NOTSET
CaseOfBeforeReturnWithoutNotSet(status) ==
  CASE status \in ErrorStatuses \ {NOTSET} -> "error"
    [] status = MODEL_EMPTY -> "empty"
    [] status = PRIMAL_INFEASIBLE -> "infeasible"
    [] status = PRIMAL_UNBOUNDED -> "unbounded"
    [] status = OPTIMAL -> "optimal"
    [] status = REACHED_DUAL_OBJECTIVE_VALUE_UPPER_BOUND -> "cutoff"
    [] status \in {REACHED_TIME_LIMIT, REACHED_ITERATION_LIMIT} -> "limit"
    [] OTHER -> "none"

CaseOfBeforeReturn(status) ==
  CASE status \in ErrorStatuses -> "error"
    [] status = MODEL_EMPTY -> "empty"
    [] status = PRIMAL_INFEASIBLE -> "infeasible"
    [] status = PRIMAL_UNBOUNDED -> "unbounded"
    [] status = OPTIMAL -> "optimal"
    [] status = REACHED_DUAL_OBJECTIVE_VALUE_UPPER_BOUND -> "cutoff"
    [] status \in {REACHED_TIME_LIMIT, REACHED_ITERATION_LIMIT} -> "limit"
    [] OTHER -> "none"

\* (variant) a finalizer that leaves the pool as run() left it
PrunePoolSkipped(t) == t

PrunePool(t) ==
  IF size(t.hmos) > 1 THEN [t EXCEPT !.hmos = pop_back(t.hmos)] ELSE t

\* (variant) an error case that leaves the statistics
RetainErrorKeepingInfo(t) == clearBasis(clearSolution(clearModelStatus(t)))

\* The body of each case of the switch on scaled_model_status_
RetainError(t) == clearSolver(t)

RetainModelEmpty(t) == clearInfo(clearBasis(clearSolution(t)))

\* (variant) the PRIMAL_INFEASIBLE case without its clearSolution
RetainPrimalInfeasibleAll(t) == t

RetainPrimalInfeasible(t) == clearSolution(t)

RetainPrimalUnbounded(t) == clearInfo(clearSolution(t))

RetainOptimal(t) == t

RetainCutoff(t) == clearInfo(clearBasis(clearSolution(t)))

\* (variant) the limit cases without their clearBasis
RetainLimitKeepingBasis(t) == clearInfo(clearSolution(t))

RetainLimit(t) == clearInfo(clearBasis(clearSolution(t)))

RetainedState(t) ==
  LET c == CaseOfBeforeReturn(t.scaled_model_status) IN
  CASE c = "error" -> RetainError(t)
    [] c = "empty" -> RetainModelEmpty(t)
    [] c = "infeasible" -> RetainPrimalInfeasible(t)
    [] c = "unbounded" -> RetainPrimalUnbounded(t)
    [] c = "optimal" -> RetainOptimal(t)
    [] c = "cutoff" -> RetainCutoff(t)
    [] c = "limit" -> RetainLimit(t)
    [] OTHER -> t

AssertsOfBeforeReturn(t, return_status) ==
  LET c == CaseOfBeforeReturn(t.scaled_model_status) IN
  CASE c = "error" -> return_status = Error
    [] c \in {"empty", "infeasible", "unbounded", "cutoff"} ->
         t.model_status = t.scaled_model_status /\ return_status = OK
    [] c = "optimal" ->
         t.model_status \in {NOTSET, OPTIMAL} /\ return_status = OK
    [] c = "limit" ->
         t.model_status = t.scaled_model_status /\ return_status = Warning
    [] OTHER -> TRUE

beforeReturnFromRun(t, return_status, lp) ==
  IF size(t.hmos) = 0
  THEN [top |-> clearSolver(t), asserts_ok |-> TRUE]
  ELSE LET p == PrunePool(t)
           r == RetainedState(p)
       IN [top |-> r,
           asserts_ok |->
             /\ size(p.hmos) = 1
             /\ AssertsOfBeforeReturn(p, return_status)
             /\ (p.scaled_model_status = OPTIMAL =>
                   isSolutionConsistent(lp, r.solution))
             /\ (r.basis.valid_ => isBasisConsistent(lp, r.basis))]

\* ------------------------------------------------------------------ externals
\* Presolve adapter: the reduced LPs a reduction of lp may produce.
ReducedLps(lp) ==
  {r \in [numCol_ : 1..lp.numCol_, numRow_ : 0..lp.numRow_, sense_ : {lp.sense_}] :
     r.numCol_ + r.numRow_ < lp.numCol_ + lp.numRow_}

Timed(o) == o.time_limit # HIGHS_CONST_INF

\* presolve_.run(): the session after each outcome the adapter may report.
PresolveRunOutcomes(lp, o, p) ==
  {[status |-> st,
    presolve |-> [p EXCEPT !.has_run_ = TRUE, !.presolve_status_ = st]] :
      st \in {"NotReduced", "Infeasible", "Unbounded", "OptionsError", "Error"}
             \cup (IF Timed(o) THEN {"Timeout"} ELSE {})}
  \cup
  {[status |-> "ReducedToEmpty",
    presolve |-> [p EXCEPT !.has_run_ = TRUE, !.presolve_status_ = "ReducedToEmpty",
                           !.reduced_lp = [EmptyLp EXCEPT !.sense_ = lp.sense_]]]}
  \cup
  {[status |-> "Reduced",
    presolve |-> [p EXCEPT !.has_run_ = TRUE, !.presolve_status_ = "Reduced",
                           !.reduced_lp = r]] : r \in ReducedLps(lp)}

\* LP solver: the final statuses a solve may report under options o.
SolverStatuses(o) ==
  {OPTIMAL, PRIMAL_INFEASIBLE, PRIMAL_UNBOUNDED, REACHED_ITERATION_LIMIT}
  \cup (IF Timed(o) THEN {REACHED_TIME_LIMIT} ELSE {})
  \cup (IF o.dual_objective_value_upper_bound # HIGHS_CONST_INF
        THEN {REACHED_DUAL_OBJECTIVE_VALUE_UPPER_BOUND} ELSE {})

SolveTag(hmo) == IF hmo.lp = "lp_" THEN "solve_original" ELSE "solve_reduced"

\* solveLp(model): either it fails, leaving the context as it was, or it fills
\* the context's status pair, solution, basis and statistics for the
\* context's own LP and reports the status code that goes with the status.
solveLp(hmo, lp, o) ==
  {[call_status |-> Error, hmo |-> hmo]}
  \cup
  UNION {
    {[call_status |-> highsStatusFromHighsModelStatus(st),
      hmo |-> [hmo EXCEPT !.scaled_model_status_ = st,
                          !.unscaled_model_status_ = un,
                          !.solution_ = FullSolution(lp, SolveTag(hmo)),
                          !.basis_ = FullBasis(lp, TRUE, SolveTag(hmo)),
                          !.unscaled_solution_params_ = sp,
                          !.has_basis = TRUE, !.has_invert = TRUE]] :
       un \in (IF st = OPTIMAL THEN {OPTIMAL, NOTSET} ELSE {st}),
       sp \in SolutionParams(st, SolveTag(hmo))} :
    st \in SolverStatuses(o)}

\* Highs::runLpSolver(model_index): the outcomes of solving hmos[model_index]
runLpSolver(hmos, model_index, lp, presolve, o) ==
  IF ~(model_index >= 0 /\ model_index < size(hmos))
  THEN {[call_status |-> Error, hmos |-> hmos]}
  ELSE {[call_status |-> r.call_status,
         hmos |-> [hmos EXCEPT ![model_index] = r.hmo]] :
          r \in solveLp(hmos[model_index],
                        LpOf(hmos[model_index], lp, presolve), o)}

\* ------------------------------------------------------------------ run()
\* line 388: the LP has no columns
\* (variant) a test for an LP with neither columns nor rows
noColumnsNoRows(lp) == lp.numCol_ = 0 /\ lp.numRow_ = 0

noColumns(lp) == lp.numCol_ = 0

\* (variant) a presolve decision that looks at the option alone
considerPresolveByOption(basis, o) == o.presolve # off_string

\* Highs::run, line 433: is presolve considered
considerPresolve(basis, o) == ~basis.valid_ /\ o.presolve # off_string

\* line 438: crossover is forced on when IPX is to solve the reduced LP
forceCrossover(o) ==
  IF o.solver = ipm_string /\ ~o.run_crossover
  THEN [o EXCEPT !.run_crossover = TRUE] ELSE o

resetStatuses(hmo) ==
  [hmo EXCEPT !.scaled_model_status_ = NOTSET, !.unscaled_model_status_ = NOTSET]

setStatuses(hmo, status) ==
  [hmo EXCEPT !.scaled_model_status_ = status, !.unscaled_model_status_ = status]

\* (variant) a solve of context 0 that starts from the basis the context has
initialiseBasisSkipped(hmo, b) == hmo

\* line 718: a valid caller-visible basis initialises the basis of the
\* context to be solved
initialiseBasis(hmo, b) == IF b.valid_ THEN [hmo EXCEPT !.basis_ = b] ELSE hmo

\* The timing idiom of run(): a span is set to minus the clock's reading
\* before the stage, and the reading after the stage is added to it
\* (lines 452-459, 466-470, 484-489, 524-528, 674-680, 719-724)
spanFrom(reading) == 0 - reading

spanTo(span, reading) == span + reading

\* line 634: this_postsolve_time += -timer_.read(timer_.postsolve_clock)
spanToPostsolve(span, reading) == span + (0 - reading)

\* timer_.start(clock): the clock's reading when it is started is kept
start(timer, reading) == [timer EXCEPT !.clock_start = reading]

\* Entry of run() up to its first stage, with the options and the
\* caller-visible basis in force at the call.
RunEntry(o, b) ==
  /\ calls_' = <<>>
  /\ UNCHANGED <<lp_, presolve_, solution_, info_>>
  /\ basis_' = b
  /\ IF size(hmos_) = 0
     THEN \* no model object: nothing to load when model_file is the default
          /\ o.model_file = FILENAME_DEFAULT
          /\ run_' = [IdleRun EXCEPT !.options_at_call = o, !.pc = "beforeReturnFromRun",
                                     !.return_status = Error]
          /\ options_' = o
          /\ UNCHANGED <<hmos_, timer_, model_status_, scaled_model_status_>>
     ELSE IF noColumns(lp_)
     THEN \* the LP has no columns
          /\ hmos_' = [hmos_ EXCEPT ![original_hmo] = setStatuses(@, MODEL_EMPTY)]
          /\ model_status_' = MODEL_EMPTY
          /\ scaled_model_status_' = MODEL_EMPTY
          /\ run_' = [IdleRun EXCEPT !.options_at_call = o,
                        !.pc = "beforeReturnFromRun",
                        !.return_status = highsStatusFromHighsModelStatus(MODEL_EMPTY)]
          /\ options_' = o
          /\ UNCHANGED timer_
     ELSE /\ model_status_' = NOTSET
          /\ scaled_model_status_' = NOTSET
          /\ IF considerPresolve(b, o)
             THEN /\ options_' = forceCrossover(o)
                  /\ hmos_' = [hmos_ EXCEPT ![original_hmo] = resetStatuses(@)]
                  /\ timer_' = [timer_ EXCEPT !.run_clock_running = TRUE,
                                              !.clock_start = timer_.presolve_clock]
                  /\ run_' = [IdleRun EXCEPT !.options_at_call = o,
                                !.pc = "runPresolve",
                                !.run_highs_clock_already_running =
                                   timer_.run_clock_running,
                                !.initial_time = timer_.run_clock,
                                !.this_presolve_time =
                                   spanFrom(timer_.presolve_clock)]
             ELSE /\ options_' = o
                  /\ hmos_' = [hmos_ EXCEPT ![original_hmo] =
                                 initialiseBasis(resetStatuses(@), b)]
                  /\ timer_' = [timer_ EXCEPT !.run_clock_running = TRUE,
                                              !.clock_start = timer_.solve_clock]
                  /\ run_' = [IdleRun EXCEPT !.options_at_call = o,
                                !.pc = "solveOriginal",
                                !.run_highs_clock_already_running =
                                   timer_.run_clock_running,
                                !.initial_time = timer_.run_clock,
                                !.this_solve_original_lp_time =
                                   spanFrom(timer_.solve_clock)]

\* The caller calls run()
Run ==
  /\ Idle
  /\ RunEntry(options_, basis_)
  /\ UNCHANGED <<gums_, last_>>

\* Highs::runPresolve: the presolve status returned and the session left
negateReducedLpCost(p) == [p EXCEPT !.cost_negations = @ + 1]

runPresolve(lp, o, p) ==
  IF o.presolve = off_string
  THEN {[status |-> "NotPresolved", presolve |-> p]}
  ELSE IF lp.numCol_ = 0 /\ lp.numRow_ = 0
  THEN {[status |-> "NullError", presolve |-> p]}
  ELSE LET p0 == IF p.has_run_ THEN ClearedPresolve ELSE p IN
       (IF Timed(o) THEN {[status |-> "Timeout", presolve |-> p0]} ELSE {})
       \cup
       {[status |-> r.status,
         presolve |-> IF r.status = "Reduced" /\ lp.sense_ = MAXIMIZE
                      THEN negateReducedLpCost(r.presolve) ELSE r.presolve] :
          r \in PresolveRunOutcomes(lp, o, p0)}

\* run(), lines 551-605: what each terminal presolve outcome does
TerminalPresolve(presolve_status) ==
  CASE presolve_status = "Infeasible" ->
         [model_status |-> PRIMAL_INFEASIBLE, transfer |-> TRUE,
          return_status |-> OK, finalize |-> TRUE, stop_clock_if_already |-> FALSE]
    [] presolve_status = "Unbounded" ->
         [model_status |-> PRIMAL_UNBOUNDED, transfer |-> TRUE,
          return_status |-> OK, finalize |-> TRUE, stop_clock_if_already |-> FALSE]
    [] presolve_status \in {"Timeout", "OptionsError"} ->
         [model_status |-> PRESOLVE_ERROR, transfer |-> FALSE,
          return_status |-> Warning, finalize |-> FALSE, stop_clock_if_already |-> TRUE]
    [] OTHER ->
         [model_status |-> PRESOLVE_ERROR, transfer |-> TRUE,
          return_status |-> Error, finalize |-> TRUE, stop_clock_if_already |-> TRUE]

\* timer_.stopRunHighsClock() under the guard the path uses
stopRunHighsClock(timer, already_running, if_already) ==
  IF already_running = if_already
  THEN [timer EXCEPT !.run_clock_running = FALSE] ELSE timer

\* run() calls beforeReturnFromRun(return_status) and returns
Return(run, return_status) ==
  /\ run_' = [run EXCEPT !.pc = "beforeReturnFromRun",
                         !.return_status = return_status]
  /\ UNCHANGED last_

\* (variant) the solution of the solved context handed over as it stands
postsolveInputAsSolved(hmos, solved_hmo, presolve_status) == hmos

\* lines 608-636: the reduced-space solution handed to postsolve
postsolveInput(hmos, solved_hmo, presolve_status) ==
  IF presolve_status = "ReducedToEmpty"
  THEN [hmos EXCEPT ![solved_hmo].solution_ = EmptySolution]
  ELSE hmos

\* A stage invocation, as recorded in calls_
Call(stage, hmo) == [stage |-> stage, hmo |-> hmo]

\* lines 457-460: the locals of run() once the presolve span is closed
presolveTimed ==
  [run_ EXCEPT !.this_presolve_time = spanTo(@, timer_.presolve_clock)]

\* The presolve stage of run() and the switch on its outcome
RunPresolve ==
  /\ run_.pc = "runPresolve"
  /\ calls_' = Append(calls_, Call("presolve", original_hmo))
  /\ UNCHANGED <<lp_, gums_, solution_, basis_, info_>>
  /\ \E r \in runPresolve(lp_, options_, presolve_) :
       LET st == r.status IN
       CASE st \in {"NotPresolved", "NotReduced"} ->
              /\ presolve_' = r.presolve
              /\ run_' = [presolveTimed EXCEPT
                            !.pc = "solveOriginal", !.presolve_status = st,
                            !.this_solve_original_lp_time =
                               spanFrom(timer_.solve_clock)]
              /\ timer_' = start(timer_, timer_.solve_clock)
              /\ UNCHANGED <<options_, hmos_, model_status_,
                             scaled_model_status_, last_>>
         [] st = "Reduced" ->
              \E cleanBounds \in {OK, Warning, Error} :
                /\ presolve_' = r.presolve
                /\ UNCHANGED <<model_status_, scaled_model_status_>>
                /\ IF interpretCallStatus(cleanBounds, run_.return_status) = Error
                   THEN /\ run_' = [presolveTimed EXCEPT
                                      !.pc = "idle",
                                      !.presolve_status = st,
                                      !.return_status = Error]
                        /\ last_' = [op |-> "run", status |-> Error,
                                     out |-> "none"]
                        /\ UNCHANGED <<options_, hmos_, timer_>>
                   ELSE /\ hmos_' = push_back(hmos_, HighsModelObject("reduced"))
                        /\ timer_' = start(timer_, timer_.solve_clock)
                        /\ options_' =
                             [options_ EXCEPT
                                !.dual_objective_value_upper_bound = HIGHS_CONST_INF]
                        /\ run_' = [presolveTimed EXCEPT
                                      !.pc = "solveReduced",
                                      !.presolve_status = st,
                                      !.solved_hmo = size(hmos_),
                                      !.this_solve_presolved_lp_time =
                                         spanFrom(timer_.solve_clock),
                                      !.save_dual_objective_value_upper_bound =
                                         options_.dual_objective_value_upper_bound]
                        /\ UNCHANGED last_
         [] st = "ReducedToEmpty" ->
              LET h == [hmos_ EXCEPT ![original_hmo] = setStatuses(@, OPTIMAL)]
                  hp == postsolveInput(h, original_hmo, st)
              IN /\ hmos_' = hp
                 /\ presolve_' = [r.presolve EXCEPT
                                    !.reduced_solution_ = hp[original_hmo].solution_]
                 /\ run_' = [presolveTimed EXCEPT
                               !.pc = "runPostsolve", !.presolve_status = st,
                               !.this_postsolve_time =
                                  spanFrom(timer_.postsolve_clock)]
                 /\ timer_' = start(timer_, timer_.postsolve_clock)
                 /\ UNCHANGED <<options_, model_status_,
                                scaled_model_status_, last_>>
         [] OTHER ->
              LET t == TerminalPresolve(st) IN
              /\ presolve_' = r.presolve
              /\ model_status_' = t.model_status
              /\ scaled_model_status_' =
                   IF t.transfer THEN t.model_status ELSE scaled_model_status_
              /\ hmos_' = IF t.transfer
                          THEN [hmos_ EXCEPT ![original_hmo] =
                                  setStatuses(@, t.model_status)]
                          ELSE hmos_
              /\ timer_' = stopRunHighsClock(timer_,
                                             run_.run_highs_clock_already_running,
                                             t.stop_clock_if_already)
              /\ run_' = [presolveTimed EXCEPT
                            !.pc = IF t.finalize THEN "beforeReturnFromRun" ELSE "idle",
                            !.presolve_status = st,
                            !.return_status = t.return_status]
              /\ last_' = IF t.finalize THEN last_
                          ELSE [op |-> "run", status |-> t.return_status,
                                out |-> "none"]
              /\ UNCHANGED options_

\* Highs::getHighsModelStatusAndInfo: harvest status and statistics
getHighsModelStatusAndInfo(t, solved_hmo) ==
  [t EXCEPT !.model_status = t.hmos[solved_hmo].unscaled_model_status_,
            !.scaled_model_status = t.hmos[solved_hmo].scaled_model_status_,
            !.info = t.hmos[solved_hmo].unscaled_solution_params_]

\* (variant) a copy from the last context of the pool
copySolutionBasisOfLast(t) ==
  [t EXCEPT !.solution = t.hmos[size(t.hmos) - 1].solution_,
            !.basis = t.hmos[size(t.hmos) - 1].basis_]

\* lines 750-751: the caller-visible solution and basis come from context 0
copySolutionBasis(t) ==
  [t EXCEPT !.solution = t.hmos[original_hmo].solution_,
            !.basis = t.hmos[original_hmo].basis_]

\* lines 819-822: the status run() returns after a solve
finalReturnStatus(scaled_model_status, return_status) ==
  interpretCallStatus(highsStatusFromHighsModelStatus(scaled_model_status),
                      return_status)

\* (variant) context 0 keeps the status pair it had
inheritStatusSkipped(hmos, solved_hmo) == hmos

\* lines 704-711: context 0 inherits the solved context's status pair
inheritStatus(hmos, solved_hmo) ==
  [hmos EXCEPT
     ![original_hmo].unscaled_model_status_ = hmos[solved_hmo].unscaled_model_status_,
     ![original_hmo].scaled_model_status_ = hmos[solved_hmo].scaled_model_status_]

\* lines 761-762 and 778-810: the time of this call and the sum of the
\* spans that are positive
sumOfSpans(run, this_solve_time) ==
  LET Positive(span) == IF span > 0 THEN span ELSE 0 IN
  IF this_solve_time > 0
  THEN Positive(run.this_presolve_time)
         + Positive(run.this_solve_presolved_lp_time)
         + Positive(run.this_postsolve_time)
         + Positive(run.this_solve_original_lp_time)
  ELSE 0

\* lines 741-824: harvest, copy, stop the clock, go to the finalizer
RunTail(run, hmos, solved_hmo, return_status) ==
  LET t == copySolutionBasis(
             getHighsModelStatusAndInfo([Top EXCEPT !.hmos = hmos], solved_hmo))
      this_solve_time == timer_.run_clock - run.initial_time
  IN /\ SetTop(t)
     /\ timer_' = stopRunHighsClock(timer_, run.run_highs_clock_already_running,
                                    FALSE)
     /\ run_' = [run EXCEPT
                   !.pc = "beforeReturnFromRun",
                   !.solved_hmo = solved_hmo,
                   !.this_solve_time = this_solve_time,
                   !.sum_time = sumOfSpans(run, this_solve_time),
                   !.return_status =
                      finalReturnStatus(t.scaled_model_status, return_status)]
     /\ UNCHANGED last_

\* An Error from a solve: to the finalizer with the pool as the solve left it
SolveError(run, hmos) ==
  /\ hmos_' = hmos
  /\ Return(run, Error)
  /\ UNCHANGED <<timer_, model_status_, scaled_model_status_, solution_, basis_,
                 info_>>

\* lines 469-470, 488-489, 679-680, 723-724: the locals of run() once the
\* span of a solve of the original LP is closed
originalSolveTimed ==
  [run_ EXCEPT !.this_solve_original_lp_time = spanTo(@, timer_.solve_clock)]

\* lines 527-528: the locals of run() once the span of the reduced solve is
\* closed
reducedSolveTimed ==
  [run_ EXCEPT !.this_solve_presolved_lp_time = spanTo(@, timer_.solve_clock)]

\* lines 633-635: the locals of run() once the postsolve span is closed
postsolveTimed ==
  [run_ EXCEPT !.this_postsolve_time = spanToPostsolve(@, timer_.postsolve_clock)]

\* lines 464-497 and 712-731: solve the original LP (not presolved, not
\* reduced, presolve off, or a valid basis)
SolveOriginal ==
  /\ run_.pc = "solveOriginal"
  /\ calls_' = Append(calls_, Call("solve", run_.solved_hmo))
  /\ UNCHANGED <<lp_, gums_, options_, presolve_>>
  /\ \E r \in runLpSolver(hmos_, run_.solved_hmo, lp_, presolve_, options_) :
       LET return_status == interpretCallStatus(r.call_status, run_.return_status) IN
       IF return_status = Error
       THEN SolveError(originalSolveTimed, r.hmos)
       ELSE RunTail(originalSolveTimed, inheritStatus(r.hmos, run_.solved_hmo),
                    run_.solved_hmo, return_status)

\* (variant) the cut-off left suspended after the solve of the reduced LP
restoreCutoffSkipped(o, save_dual_objective_value_upper_bound) == o

\* lines 530-531: restore the dual objective cut-off
restoreCutoff(o, save_dual_objective_value_upper_bound) ==
  [o EXCEPT !.dual_objective_value_upper_bound =
              save_dual_objective_value_upper_bound]

\* (variant) a test that lets any solved context through to postsolve
solvedWithAnyStatus(hmos, solved_hmo) == TRUE

\* (variant) a test that lets no solved context through to postsolve
solvedToOptimalityNever(hmos, solved_hmo) == FALSE

\* line 608: the solved context has scaled status OPTIMAL
solvedToOptimality(hmos, solved_hmo) ==
  hmos[solved_hmo].scaled_model_status_ = OPTIMAL

\* lines 498-539 and 608-636: solve the reduced LP with the cut-off suspended
SolveReduced ==
  /\ run_.pc = "solveReduced"
  /\ calls_' = Append(calls_, Call("solve", run_.solved_hmo))
  /\ UNCHANGED <<lp_, gums_>>
  /\ options_' = restoreCutoff(options_,
                               run_.save_dual_objective_value_upper_bound)
  /\ \E r \in runLpSolver(hmos_, run_.solved_hmo, lp_, presolve_, options_) :
       LET return_status == interpretCallStatus(r.call_status, run_.return_status) IN
       IF return_status = Error
       THEN SolveError(reducedSolveTimed, r.hmos) /\ UNCHANGED presolve_
       ELSE IF solvedToOptimality(r.hmos, run_.solved_hmo)
       THEN LET hp == postsolveInput(r.hmos, run_.solved_hmo, run_.presolve_status) IN
            /\ hmos_' = hp
            /\ presolve_' = [presolve_ EXCEPT
                               !.reduced_solution_ = hp[run_.solved_hmo].solution_]
            /\ run_' = [reducedSolveTimed EXCEPT
                          !.pc = "runPostsolve",
                          !.return_status = return_status,
                          !.this_postsolve_time =
                             spanFrom(timer_.postsolve_clock)]
            /\ timer_' = start(timer_, timer_.postsolve_clock)
            /\ UNCHANGED <<model_status_, scaled_model_status_, solution_,
                           basis_, info_, last_>>
       ELSE /\ RunTail(reducedSolveTimed, inheritStatus(r.hmos, run_.solved_hmo),
                       run_.solved_hmo, return_status)
            /\ UNCHANGED presolve_

\* Highs::runPostsolve: the postsolve status returned and the session left
negateReducedLpColDuals(p, reduced) ==
  [p EXCEPT !.col_dual_negations = Append(@, reduced)]

runPostsolve(lp, p) ==
  IF ~isSolutionConsistent(p.reduced_lp, p.reduced_solution_)
  THEN {[status |-> "ReducedSolutionDimenionsError", presolve |-> p]}
  ELSE IF p.presolve_status_ \notin {"Reduced", "ReducedToEmpty"}
  THEN {[status |-> "NoPostsolve", presolve |-> p]}
  ELSE LET p1 == IF lp.sense_ = MAXIMIZE THEN negateReducedLpColDuals(p, TRUE) ELSE p
           rec == [p1 EXCEPT !.recovered_solution_ = FullSolution(lp, "postsolve")]
       IN {[status |-> "BasisError", presolve |-> p1],
           [status |-> "SolutionRecovered",
            presolve |-> IF lp.sense_ = MAXIMIZE
                         THEN negateReducedLpColDuals(rec, FALSE) ELSE rec]}

\* lines 645-654: context 0 is seeded with what postsolve recovered
resetModelStatusAndSolutionParams(hmo) ==
  [resetStatuses(hmo) EXCEPT !.unscaled_solution_params_ = ClearedInfo]

\* (variant) a seeding that sets the solution and leaves the basis
seedSolutionFromPostsolve(hmo, lp, p) ==
  [resetModelStatusAndSolutionParams(hmo) EXCEPT
     !.solution_ = p.recovered_solution_]

seedFromPostsolve(hmo, lp, p) ==
  [resetModelStatusAndSolutionParams(hmo) EXCEPT
     !.solution_ = p.recovered_solution_,
     !.basis_ = FullBasis(lp, TRUE, "postsolve")]

\* (variant) hot-start options that also suspend the cut-off
hotStartOptionsWithoutCutoff(o) ==
  [o EXCEPT !.solver = IF @ = ipm_string THEN simplex_string ELSE @,
            !.simplex_strategy = SIMPLEX_STRATEGY_CHOOSE,
            !.highs_min_threads = 1,
            !.highs_max_threads = 1,
            !.dual_objective_value_upper_bound = HIGHS_CONST_INF]

\* (variant) hot-start options that leave the thread counts alone
hotStartOptionsKeepingThreads(o) ==
  [o EXCEPT !.solver = IF @ = ipm_string THEN simplex_string ELSE @,
            !.simplex_strategy = SIMPLEX_STRATEGY_CHOOSE]

\* lines 661-671: the options of the hot start
hotStartOptions(o) ==
  [o EXCEPT !.solver = IF @ = ipm_string THEN simplex_string ELSE @,
            !.simplex_strategy = SIMPLEX_STRATEGY_CHOOSE,
            !.highs_min_threads = 1,
            !.highs_max_threads = 1]

\* (variant) a test that also lets a basis error through to the hot start
solutionRecoveredOrBasisError(postsolve_status) ==
  postsolve_status \in {"SolutionRecovered", "BasisError"}

\* line 637: postsolve has recovered a solution
solutionRecovered(postsolve_status) == postsolve_status = "SolutionRecovered"

\* lines 626-702: postsolve, then prepare the hot start or fail
RunPostsolve ==
  /\ run_.pc = "runPostsolve"
  /\ calls_' = Append(calls_, Call("postsolve", original_hmo))
  /\ UNCHANGED <<lp_, gums_, solution_, basis_, info_>>
  /\ \E r \in runPostsolve(lp_, presolve_) :
       /\ presolve_' = r.presolve
       /\ IF solutionRecovered(r.status)
          THEN /\ hmos_' = [hmos_ EXCEPT ![original_hmo] =
                              seedFromPostsolve(@, lp_, r.presolve)]
               /\ options_' = hotStartOptions(options_)
               /\ run_' = [postsolveTimed EXCEPT
                             !.pc = "hotStart",
                             !.postsolve_status = r.status,
                             !.solved_hmo = original_hmo,
                             !.save_options = options_,
                             !.this_solve_original_lp_time =
                                spanFrom(timer_.solve_clock)]
               /\ timer_' = start(timer_, timer_.solve_clock)
               /\ UNCHANGED <<model_status_, scaled_model_status_, last_>>
          ELSE /\ hmos_' = [hmos_ EXCEPT ![0] = setStatuses(@, POSTSOLVE_ERROR)]
               /\ model_status_' = POSTSOLVE_ERROR
               /\ scaled_model_status_' = POSTSOLVE_ERROR
               /\ run_' = [postsolveTimed EXCEPT
                             !.pc = "beforeReturnFromRun",
                             !.postsolve_status = r.status,
                             !.return_status = Error]
               /\ UNCHANGED <<options_, timer_, last_>>

\* lines 672-690: hot start of the original LP from the postsolved basis
HotStart ==
  /\ run_.pc = "hotStart"
  /\ calls_' = Append(calls_, Call("solve", run_.solved_hmo))
  /\ UNCHANGED <<lp_, gums_, presolve_>>
  /\ options_' = run_.save_options
  /\ \E r \in runLpSolver(hmos_, run_.solved_hmo, lp_, presolve_, options_) :
       LET return_status == interpretCallStatus(r.call_status, run_.return_status) IN
       IF return_status = Error
       THEN SolveError(originalSolveTimed, r.hmos)
       ELSE RunTail(originalSolveTimed, r.hmos, run_.solved_hmo, return_status)

\* Time passes while a stage of run() executes: the run clock and the clock
\* of that stage advance by one tick
Elapse ==
  /\ run_.pc \in {"runPresolve", "solveOriginal", "solveReduced",
                   "runPostsolve", "hotStart"}
  /\ timer_.run_clock < MaxTime
  /\ timer_' =
       [timer_ EXCEPT
          !.run_clock = @ + 1,
          !.presolve_clock = IF run_.pc = "runPresolve" THEN @ + 1 ELSE @,
          !.solve_clock = IF run_.pc \in {"solveOriginal", "solveReduced",
                                          "hotStart"}
                          THEN @ + 1 ELSE @,
          !.postsolve_clock = IF run_.pc = "runPostsolve" THEN @ + 1 ELSE @]
  /\ UNCHANGED <<lp_, options_, hmos_, presolve_, model_status_,
                 scaled_model_status_, solution_, basis_, info_, run_, gums_,
                 calls_, last_>>

\* Highs::beforeReturnFromRun, then run() returns
BeforeReturnFromRun ==
  /\ run_.pc = "beforeReturnFromRun"
  /\ LET f == beforeReturnFromRun(Top, run_.return_status, lp_) IN
     /\ SetTop(f.top)
     /\ run_' = [run_ EXCEPT !.pc = "idle", !.finalized = @ + 1,
                             !.asserts_ok = f.asserts_ok]
  /\ last_' = [op |-> "run", status |-> run_.return_status, out |-> "none"]
  /\ UNCHANGED <<lp_, options_, presolve_, timer_, gums_, calls_>>

\* ------------------------------------------------------------------ loading
Returned(op, status) == [op |-> op, status |-> status, out |-> "none"]

\* last_ after an operation whose result no property examines
NoResult == Returned("none", OK)

\* (variant) a reset that clears the results and keeps the pool
resetKeepingPool(t) == clearInfo(clearBasis(clearSolution(clearModelStatus(t))))

\* Highs::reset: clearSolver, a fresh pool, a cleared presolve session
reset(t) == [clearSolver(t) EXCEPT !.hmos = FreshPool]

\* A public operation other than run() starts: the locals of the last run()
\* are gone, and so is the record of the stages it invoked.
Forget ==
  /\ run_' = IdleRun
  /\ calls_' = <<>>

\* Highs::passModel with an LP that assessLp accepts
passModel(lp) ==
  /\ lp_' = lp
  /\ SetTop(reset(Top))
  /\ presolve_' = ClearedPresolve
  /\ last_' = Returned("passModel", OK)
  /\ Forget
  /\ UNCHANGED <<options_, timer_, gums_>>

PassModel ==
  /\ Idle
  /\ \E lp \in Lps(MINIMIZE) : passModel(lp)

PassModelMaximize ==
  /\ Idle
  /\ \E lp \in Lps(MAXIMIZE) : passModel(lp)

\* Highs::passModel with an LP that assessLp rejects: lp_ has been overwritten
PassModelInvalid ==
  /\ Idle
  /\ \E lp \in Lps(MINIMIZE) : lp_' = lp
  /\ last_' = Returned("passModel", Error)
  /\ Forget
  /\ UNCHANGED <<options_, hmos_, presolve_, timer_, model_status_,
                 scaled_model_status_, solution_, basis_, info_, gums_>>

\* Highs::clearModel
ClearModel ==
  /\ Idle
  /\ lp_' = EmptyLp
  /\ SetTop(clearSolver([Top EXCEPT !.hmos = FreshPool]))
  /\ last_' = Returned("clearModel", OK)
  /\ Forget
  /\ UNCHANGED <<options_, presolve_, timer_, gums_>>

\* Highs::passHighsOptions
PassHighsOptions ==
  /\ Idle
  /\ \E o \in OptionProfiles : options_' = o
  /\ last_' = NoResult
  /\ Forget
  /\ UNCHANGED <<lp_, hmos_, presolve_, timer_, model_status_,
                 scaled_model_status_, solution_, basis_, info_, gums_>>

\* Highs::setBasis(basis) with a basis that basisOk accepts: it is adopted
\* as valid.  (A basis that basisOk rejects leaves every field as it was.)
SetBasis ==
  /\ Idle
  /\ basis_' = FullBasis(lp_, TRUE, "user")
  /\ last_' = NoResult
  /\ Forget
  /\ UNCHANGED <<lp_, options_, hmos_, presolve_, timer_, model_status_,
                 scaled_model_status_, solution_, info_, gums_>>

\* Highs::setBasis(): invalidate the basis of Highs and of context 0
clearBasisOfHmo(hmo) ==
  [hmo EXCEPT !.basis_.valid_ = FALSE, !.has_basis = FALSE, !.has_invert = FALSE]

SetBasisInvalid ==
  /\ Idle
  /\ basis_' = [basis_ EXCEPT !.valid_ = FALSE]
  /\ hmos_' = IF size(hmos_) > 0
              THEN [hmos_ EXCEPT ![0] = clearBasisOfHmo(@)] ELSE hmos_
  /\ last_' = NoResult
  /\ Forget
  /\ UNCHANGED <<lp_, options_, presolve_, timer_, model_status_,
                 scaled_model_status_, solution_, info_, gums_>>

\* ------------------------------------------------------------------ editing
\* Highs::updateHighsSolutionBasis: resize the solutions to the LP, and adopt
\* the basis of context 0 if it is still valid
\* (variant) a resize of the column arrays alone
resizeColumns(solution, lp) ==
  [col_value |-> lp.numCol_, row_value |-> solution.row_value,
   col_dual |-> lp.numCol_, row_dual |-> solution.row_dual, from |-> "resized"]

resize(solution, lp) ==
  [col_value |-> lp.numCol_, row_value |-> lp.numRow_,
   col_dual |-> lp.numCol_, row_dual |-> lp.numRow_, from |-> "resized"]

updateHighsSolutionBasis(t, lp) ==
  [t EXCEPT
     !.solution = resize(@, lp),
     !.hmos[0].solution_ = resize(@, lp),
     !.basis = IF t.hmos[0].basis_.valid_
               THEN t.hmos[0].basis_
               ELSE [@ EXCEPT !.valid_ = FALSE, !.col_status = lp.numCol_,
                              !.row_status = lp.numRow_]]

\* The structural-edit delegate (HighsSimplexInterface) on success: the LP of
\* context 0 has its new dimensions, the basis of context 0 is either kept
\* valid at the new dimensions or invalidated, and no factorization is left.
editHmo(hmo, lp, keep_basis) ==
  [hmo EXCEPT
     !.basis_ = IF hmo.basis_.valid_ /\ keep_basis
                THEN FullBasis(lp, TRUE, hmo.basis_.from)
                ELSE [@ EXCEPT !.valid_ = FALSE],
     !.has_basis = hmo.has_basis /\ hmo.basis_.valid_ /\ keep_basis,
     !.has_invert = FALSE]

\* (variant) a failed edit that still runs updateHighsSolutionBasis
abortedEditUpdating(t, lp) ==
  [t EXCEPT
     !.solution = resize(@, lp),
     !.basis = IF t.hmos[0].basis_.valid_
               THEN t.hmos[0].basis_
               ELSE [@ EXCEPT !.valid_ = FALSE, !.col_status = lp.numCol_,
                              !.row_status = lp.numRow_]]

\* `return false` after the delegate reported Error: nothing is touched
abortedEdit(t, lp) == t

\* An edit of context 0: the delegate fails and the edit returns false, or
\* it succeeds and, for the edits that change the dimensions (update),
\* updateHighsSolutionBasis follows.  label is what last_ records of the call.
EditStep(label, lp, update, keeps) ==
  /\ Idle
  /\ haveHmo
  /\ Forget
  /\ UNCHANGED <<options_, presolve_, timer_, gums_>>
  /\ \E delegate \in {OK, Error}, keep_basis \in keeps :
       IF interpretCallStatus(delegate, OK) = Error
       THEN /\ last_' = label @@ [op |-> "edit", status |-> Error, out |-> FALSE]
            /\ SetTop(abortedEdit(Top, lp_))
            /\ UNCHANGED lp_
       ELSE /\ last_' = label @@ [op |-> "edit", status |-> OK, out |-> TRUE]
            /\ lp_' = lp
            /\ LET t == [Top EXCEPT !.hmos[0] = editHmo(@, lp, keep_basis)] IN
               SetTop(IF update THEN updateHighsSolutionBasis(t, lp) ELSE t)

\* addRows, addCols, deleteRows, deleteCols: the delegate fails and nothing
\* changes, or it succeeds and updateHighsSolutionBasis follows
StructuralEdit(op, lp) == EditStep(<<>>, lp, TRUE, BOOLEAN)

AddRows ==
  /\ lp_.numRow_ < MaxRow
  /\ StructuralEdit("addRows", [lp_ EXCEPT !.numRow_ = @ + 1])

DeleteRows ==
  /\ lp_.numRow_ > 0
  /\ StructuralEdit("deleteRows", [lp_ EXCEPT !.numRow_ = @ - 1])

AddCols ==
  /\ lp_.numCol_ < MaxCol
  /\ StructuralEdit("addCols", [lp_ EXCEPT !.numCol_ = @ + 1])

DeleteCols ==
  /\ lp_.numCol_ > 0
  /\ StructuralEdit("deleteCols", [lp_ EXCEPT !.numCol_ = @ - 1])

\* Highs::addRow: addRows with one row; last_ records the LP before the call
AddRow ==
  /\ lp_.numRow_ < MaxRow
  /\ EditStep([op |-> "addRow", lp_before |-> lp_],
              [lp_ EXCEPT !.numRow_ = @ + 1], TRUE, BOOLEAN)

\* Highs::deleteRows(from_row, to_row) of the last row alone; last_ records
\* whether the call follows the successful addRow that added that row, and
\* the LP before that addRow
DeleteRowsLast ==
  /\ lp_.numRow_ > 0
  /\ LET undo == last_.op = "addRow" /\ last_.status = OK IN
     EditStep([op |-> "deleteRows", undoes_addRow |-> undo,
               lp_before |-> IF undo THEN last_.lp_before ELSE lp_],
              [lp_ EXCEPT !.numRow_ = @ - 1], TRUE, BOOLEAN)

\* changeColsCost, changeColsBounds, changeRowsBounds, changeCoeff (and the
\* one-entry forms): the delegate changes the data of context 0, and with
\* that maybe its basis; the dimensions stay and updateHighsSolutionBasis
\* is not called
ChangeEdit(op) == EditStep([op |-> op], lp_, FALSE, BOOLEAN)

ChangeColsCost ==
  /\ Idle
  /\ ChangeEdit("changeColsCost")

ChangeColsBounds ==
  /\ Idle
  /\ ChangeEdit("changeColsBounds")

ChangeRowsBounds ==
  /\ Idle
  /\ ChangeEdit("changeRowsBounds")

ChangeCoeff ==
  /\ Idle
  /\ ChangeEdit("changeCoeff")

\* Highs::changeObjectiveSense(sense)
ChangeObjectiveSense ==
  /\ Idle
  /\ \E sense \in {MINIMIZE, MAXIMIZE} :
       EditStep([op |-> "changeObjectiveSense"], [lp_ EXCEPT !.sense_ = sense],
                FALSE, BOOLEAN)

\* ------------------------------------------------------------------ setSolution
\* The solutions a caller passes to setSolution: col_dual and row_dual are
\* empty or sized to the LP (the assertions of lines 1032-1035); col_value
\* is empty, sized to the LP, or one entry longer.
SolutionInputs(lp) ==
  [col_value : {0, lp.numCol_, lp.numCol_ + 1},
   col_dual : {0, lp.numCol_},
   row_dual : {0, lp.numRow_}]

\* lines 1037-1039: the non-empty arrays of the argument are copied
copySolutionArrays(solution, input) ==
  [solution EXCEPT
     !.col_value = IF input.col_value > 0 THEN input.col_value ELSE @,
     !.col_dual = IF input.col_dual > 0 THEN input.col_dual ELSE @,
     !.row_dual = IF input.row_dual > 0 THEN input.row_dual ELSE @,
     !.from = IF input.col_value + input.col_dual + input.row_dual > 0
              THEN "user" ELSE @]

\* calculateRowValues(lp_, solution_): it fails, or it fills row_value
calculateRowValues(lp, solution) ==
  {[call_status |-> Error, solution |-> solution],
   [call_status |-> OK, solution |-> [solution EXCEPT !.row_value = lp.numRow_]]}

\* calculateColDuals(lp_, solution_): it fails, or it fills col_dual
calculateColDuals(lp, solution) ==
  {[call_status |-> Error, solution |-> solution],
   [call_status |-> OK, solution |-> [solution EXCEPT !.col_dual = lp.numCol_]]}

\* Highs::setSolution: the outcomes of a call with argument input
setSolution(solution, lp, input) ==
  LET s1 == copySolutionArrays(solution, input)
      r1 == IF input.col_value > 0 THEN calculateRowValues(lp, s1)
            ELSE {[call_status |-> OK, solution |-> s1]}
  IN UNION {
       IF interpretCallStatus(a.call_status, OK) = Error
       THEN {[return_status |-> Error, solution |-> a.solution]}
       ELSE IF input.row_dual > 0
       THEN {[return_status |-> interpretCallStatus(b.call_status, OK),
              solution |-> b.solution] : b \in calculateColDuals(lp, a.solution)}
       ELSE {[return_status |-> OK, solution |-> a.solution]} : a \in r1}

SetSolution ==
  /\ Idle
  /\ solution_.col_value # 0 \/ solution_.col_value # lp_.numCol_
  /\ \E input \in SolutionInputs(lp_) :
       \E r \in setSolution(solution_, lp_, input) :
         /\ solution_' = r.solution
         /\ last_' = Returned("setSolution", r.return_status)
  /\ Forget
  /\ UNCHANGED <<lp_, options_, hmos_, presolve_, timer_, model_status_,
                 scaled_model_status_, basis_, info_, gums_>>

\* ------------------------------------------------------------------ basis queries
\* last_ after a basis query: its status, and whether it wrote its outputs
Queried(op, status) ==
  [op |-> op, status |-> status,
   out |-> IF status = OK THEN "written" ELSE "none"]

\* The test each query other than getBasicVariables makes before it solves
\* with the factorization of context 0
hasInvert(hmos) == hmos[0].has_invert

\* A query of context 0: no pool, an index out of range (in_range) or the
\* missing requirement (ready) give Error with nothing written; otherwise
\* the outputs are written and the query returns OK.  No field changes.
BasisQuery(op, in_range, ready) ==
  /\ last_' = Queried(op, IF size(hmos_) = 0 THEN Error
                          ELSE IF ~in_range THEN Error
                          ELSE IF ~ready THEN Error
                          ELSE OK)
  /\ Forget
  /\ UNCHANGED <<lp_, options_, hmos_, presolve_, timer_, model_status_,
                 scaled_model_status_, solution_, basis_, info_, gums_>>

\* Highs::getBasicVariables: it asks for a simplex basis (has_basis), and for
\* a simplex LP with the row count of the LP of context 0
GetBasicVariables ==
  /\ Idle
  /\ \E simplex_lp_rows_agree \in BOOLEAN :
       BasisQuery("getBasicVariables", TRUE,
                  haveHmo /\ hmos_[0].has_basis /\ simplex_lp_rows_agree)

\* The row and column indices a caller passes
QueryIndices == 0..MaxRow

GetBasisInverseRow ==
  /\ Idle
  /\ \E row \in QueryIndices :
       BasisQuery("getBasisInverseRow", row < lp_.numRow_,
                  haveHmo /\ hasInvert(hmos_))

GetBasisInverseCol ==
  /\ Idle
  /\ \E col \in QueryIndices :
       BasisQuery("getBasisInverseCol", col < lp_.numRow_,
                  haveHmo /\ hasInvert(hmos_))

GetBasisSolve ==
  /\ Idle
  /\ BasisQuery("getBasisSolve", TRUE, haveHmo /\ hasInvert(hmos_))

GetBasisTransposeSolve ==
  /\ Idle
  /\ BasisQuery("getBasisTransposeSolve", TRUE, haveHmo /\ hasInvert(hmos_))

GetReducedRow ==
  /\ Idle
  /\ \E row \in QueryIndices :
       BasisQuery("getReducedRow", row < lp_.numRow_,
                  haveHmo /\ hasInvert(hmos_))

GetReducedColumn ==
  /\ Idle
  /\ \E col \in 0..MaxCol :
       BasisQuery("getReducedColumn", col < lp_.numCol_,
                  haveHmo /\ hasInvert(hmos_))

\* ------------------------------------------------------------------ status use
\* (variant) a check of the scaled status alone
unscaledOptimalWhateverInfeasibilities(scaled_model_status, info, primal_tolerance, dual_tolerance) ==
  scaled_model_status = OPTIMAL

\* Highs::unscaledOptimal
unscaledOptimal(scaled_model_status, info, primal_tolerance, dual_tolerance) ==
  /\ scaled_model_status = OPTIMAL
  /\ ~(\/ info.max_primal_infeasibility > primal_tolerance
       \/ info.max_dual_infeasibility > dual_tolerance)

Tolerances == {0, 1}

\* last_ after getUseModelStatus: its status, use_model_status, its
\* arguments, and whether it called run()
UseModelStatus(status, out, ptol, dtol, rerun, ran) ==
  [op |-> "getUseModelStatus", status |-> status, out |-> out,
   primal_tolerance |-> ptol, dual_tolerance |-> dtol,
   rerun_from_logical_basis |-> rerun, ran |-> ran]

\* Highs::getUseModelStatus up to its return or to its call of run()
GetUseModelStatus ==
  /\ Idle
  /\ \E ptol \in Tolerances, dtol \in Tolerances, rerun_from_logical_basis \in BOOLEAN :
       IF model_status_ # NOTSET
       THEN /\ last_' = UseModelStatus(OK, model_status_, ptol, dtol,
                                       rerun_from_logical_basis, FALSE)
            /\ Forget
            /\ UNCHANGED <<lp_, options_, hmos_, presolve_, timer_, model_status_,
                           scaled_model_status_, solution_, basis_, info_, gums_>>
       ELSE IF unscaledOptimal(scaled_model_status_, info_, ptol, dtol)
       THEN /\ last_' = UseModelStatus(OK, OPTIMAL, ptol, dtol,
                                       rerun_from_logical_basis, FALSE)
            /\ Forget
            /\ UNCHANGED <<lp_, options_, hmos_, presolve_, timer_, model_status_,
                           scaled_model_status_, solution_, basis_, info_, gums_>>
       ELSE IF rerun_from_logical_basis
       THEN /\ gums_' = [pc |-> "run", save_presolve |-> options_.presolve,
                         primal_tolerance |-> ptol, dual_tolerance |-> dtol,
                         rerun_from_logical_basis |-> rerun_from_logical_basis]
            /\ RunEntry([options_ EXCEPT !.presolve = on_string],
                        [basis_ EXCEPT !.valid_ = FALSE])
            /\ last_' = NoResult
       ELSE /\ last_' = UseModelStatus(OK, model_status_, ptol, dtol,
                                       rerun_from_logical_basis, FALSE)
            /\ Forget
            /\ UNCHANGED <<lp_, options_, hmos_, presolve_, timer_, model_status_,
                           scaled_model_status_, solution_, basis_, info_, gums_>>

\* (variant) a return that leaves the presolve option as the re-run had it
restorePresolveSkipped(o, save_presolve) == o

\* line 1758: options_.presolve = save_presolve
restorePresolve(o, save_presolve) == [o EXCEPT !.presolve = save_presolve]

\* lines 1758-1779: the run() called by getUseModelStatus has returned
GetUseModelStatusReturn ==
  /\ gums_.pc = "run"
  /\ run_.pc = "idle"
  /\ gums_' = IdleGums
  /\ options_' = restorePresolve(options_, gums_.save_presolve)
  /\ last_' =
       IF interpretCallStatus(last_.status, OK) = Error
       THEN UseModelStatus(Error, "unassigned", gums_.primal_tolerance,
                           gums_.dual_tolerance,
                           gums_.rerun_from_logical_basis, TRUE)
       ELSE UseModelStatus(OK,
              IF model_status_ # NOTSET THEN model_status_
              ELSE IF unscaledOptimal(scaled_model_status_, info_,
                                      gums_.primal_tolerance,
                                      gums_.dual_tolerance)
              THEN OPTIMAL
              ELSE "unassigned",
              gums_.primal_tolerance, gums_.dual_tolerance,
              gums_.rerun_from_logical_basis, TRUE)
  /\ UNCHANGED <<lp_, hmos_, presolve_, timer_, model_status_,
                 scaled_model_status_, solution_, basis_, info_, run_, calls_>>

\* ------------------------------------------------------------------ machine
Init ==
  /\ lp_ = EmptyLp
  /\ options_ = DefaultOptions
  /\ hmos_ = FreshPool
  /\ presolve_ = ClearedPresolve
  /\ timer_ = StoppedTimer
  /\ model_status_ = NOTSET
  /\ scaled_model_status_ = NOTSET
  /\ solution_ = EmptySolution
  /\ basis_ = EmptyBasis
  /\ info_ = ClearedInfo
  /\ run_ = IdleRun
  /\ gums_ = IdleGums
  /\ calls_ = <<>>
  /\ last_ = Returned("Highs", OK)

\* The stages of a run() in progress
NextRun ==
  \/ RunPresolve
  \/ SolveOriginal
  \/ SolveReduced
  \/ RunPostsolve
  \/ HotStart
  \/ BeforeReturnFromRun

\* Loading, options, basis and run()
Next ==
  \/ PassModel
  \/ ClearModel
  \/ PassHighsOptions
  \/ SetBasis
  \/ SetBasisInvalid
  \/ Run
  \/ NextRun

Spec == Init /\ [][Next]_vars

\* Loading, options, setBasis and run() when every stage call of a run() in
\* progress returns: a stage that can be taken is eventually taken
NextReturning ==
  \/ PassModel
  \/ PassHighsOptions
  \/ SetBasis
  \/ Run
  \/ NextRun

SpecReturning == Init /\ [][NextReturning]_vars /\ WF_vars(NextRun)

\* Loading, structural edits, getUseModelStatus and run(), default options
NextPool ==
  \/ PassModel
  \/ ClearModel
  \/ AddRows
  \/ DeleteRows
  \/ AddCols
  \/ DeleteCols
  \/ GetUseModelStatus
  \/ GetUseModelStatusReturn
  \/ Run
  \/ NextRun

SpecPool == Init /\ [][NextPool]_vars

\* Loading, setBasis(), edits of the rows, run() and the basis queries
NextQuery ==
  \/ PassModel
  \/ SetBasisInvalid
  \/ AddRows
  \/ DeleteRows
  \/ GetBasicVariables
  \/ GetBasisInverseRow
  \/ GetBasisInverseCol
  \/ GetBasisSolve
  \/ GetBasisTransposeSolve
  \/ GetReducedRow
  \/ GetReducedColumn
  \/ Run
  \/ NextRun

SpecQuery == Init /\ [][NextQuery]_vars

\* Loading, options, getUseModelStatus and run()
NextStatus ==
  \/ PassModel
  \/ PassHighsOptions
  \/ GetUseModelStatus
  \/ GetUseModelStatusReturn
  \/ Run
  \/ NextRun

SpecStatus == Init /\ [][NextStatus]_vars

\* Loading of valid and of rejected LPs, setBasis and run(), default options
NextLoad ==
  \/ PassModel
  \/ PassModelInvalid
  \/ ClearModel
  \/ SetBasis
  \/ SetBasisInvalid
  \/ Run
  \/ NextRun

SpecLoad == Init /\ [][NextLoad]_vars

\* Loading of valid and of rejected LPs, setSolution and run()
NextSolution ==
  \/ PassModel
  \/ PassModelInvalid
  \/ SetSolution
  \/ Run
  \/ NextRun

SpecSolution == Init /\ [][NextSolution]_vars

\* Loading, the edits of rows, columns and data, and run()
NextEdit ==
  \/ PassModel
  \/ AddRow
  \/ DeleteRowsLast
  \/ AddCols
  \/ DeleteCols
  \/ ChangeColsCost
  \/ ChangeColsBounds
  \/ ChangeRowsBounds
  \/ ChangeCoeff
  \/ Run
  \/ NextRun

SpecEdit == Init /\ [][NextEdit]_vars

\* Loading, the edits that keep the dimensions, and run()
NextChange ==
  \/ PassModel
  \/ ChangeColsCost
  \/ ChangeColsBounds
  \/ ChangeRowsBounds
  \/ ChangeCoeff
  \/ ChangeObjectiveSense
  \/ Run
  \/ NextRun

SpecChange == Init /\ [][NextChange]_vars

\* Loading of minimize-sense and maximize-sense models, and run()
NextSense ==
  \/ PassModel
  \/ PassModelMaximize
  \/ Run
  \/ NextRun

SpecSense == Init /\ [][NextSense]_vars

\* Loading and run(), with time passing during the stages
NextTime ==
  \/ PassModel
  \/ Run
  \/ NextRun
  \/ Elapse

SpecTime == Init /\ [][NextTime]_vars

\* ------------------------------------------------------------------ properties
\* run() has returned and no other operation has been called since
RunReturned == run_.pc = "idle" /\ last_.op = "run"

\* The step on which run() returns through beforeReturnFromRun
FinalizerStep == run_.pc = "beforeReturnFromRun" /\ run_'.pc = "idle"

SolutionIsEmpty ==
  /\ solution_.col_value = 0
  /\ solution_.col_dual = 0
  /\ solution_.row_value = 0
  /\ solution_.row_dual = 0

BasisIsEmpty ==
  /\ ~basis_.valid_
  /\ basis_.col_status = 0
  /\ basis_.row_status = 0

\* The stage calls of a run() that presolved, solved the reduced LP,
\* postsolved and hot-started the original LP
PresolveCall == Call("presolve", original_hmo)
ReducedSolveCall == Call("solve", 1)
PostsolveCall == Call("postsolve", original_hmo)
HotStartCall == Call("solve", original_hmo)

\* C1: whenever no run() is executing the pool holds exactly one context, the
\* original-problem context at index 0; a second context exists only while
\* run() is on the path that solves the reduced LP.
C1_SingleContextWhenIdle ==
  /\ run_.pc = "idle" => size(hmos_) = 1 /\ hmos_[0].lp = "lp_"
  /\ size(hmos_) # 1 =>
       /\ size(hmos_) = 2
       /\ hmos_[0].lp = "lp_"
       /\ hmos_[1].lp = "reduced"
       /\ run_.presolve_status = "Reduced"
       /\ run_.pc \in {"solveReduced", "runPostsolve", "hotStart",
                       "beforeReturnFromRun"}

\* A run() that took the reduced-LP path to its end has returned.
C1_Witness ==
  /\ RunReturned
  /\ run_.presolve_status = "Reduced"
  /\ calls_ = <<PresolveCall, ReducedSolveCall, PostsolveCall, HotStartCall>>
  /\ size(hmos_) = 1

\* C2 (as claimed): whenever run() returns with an error status marked (the
\* scaled status in the error group, or the unscaled status one of the five
\* error statuses, as after a presolve timeout or options error), the
\* Solution arrays are empty, the Basis is invalid and empty, Info is cleared
\* and run() returned Error.
C2_ErrorOutcomeClearsAll ==
  (/\ RunReturned
   /\ \/ scaled_model_status_ \in ErrorStatuses
      \/ model_status_ \in ErrorStatuses \ {NOTSET})
  => /\ SolutionIsEmpty
     /\ BasisIsEmpty
     /\ info_ = ClearedInfo
     /\ last_.status = Error

\* run() returned Warning after a presolve timeout, marked PRESOLVE_ERROR,
\* with the solution and the statistics of an earlier run() still in place.
C2_Witness ==
  /\ RunReturned
  /\ run_.presolve_status = "Timeout"
  /\ model_status_ = PRESOLVE_ERROR
  /\ last_.status = Warning
  /\ run_.finalized = 0
  /\ solution_.col_value > 0
  /\ info_ # ClearedInfo

\* C3: whenever run() returns with scaled status OPTIMAL it returns OK, the
\* finalizer leaves Solution, Basis and Info as they were, and Solution and
\* Basis are those of context 0, computed for the original LP and sized to
\* its numCol_ and numRow_.
C3_OptimalRetainsAll ==
  /\ [](RunReturned /\ scaled_model_status_ = OPTIMAL =>
          /\ last_.status = OK
          /\ run_.finalized = 1
          /\ solution_ = hmos_[0].solution_
          /\ basis_ = hmos_[0].basis_
          /\ solution_.from = "solve_original"
          /\ basis_.from = "solve_original"
          /\ isSolutionConsistent(lp_, solution_)
          /\ isBasisConsistent(lp_, basis_)
          /\ info_ # ClearedInfo)
  /\ [][FinalizerStep /\ scaled_model_status_ = OPTIMAL =>
          /\ scaled_model_status_' = OPTIMAL
          /\ solution_' = solution_
          /\ basis_' = basis_
          /\ info_' = info_]_vars

\* run() returned optimal after presolve had reduced the LP: the solution has
\* the dimensions of the original LP, which the reduced LP has not.
C3_Witness ==
  /\ RunReturned
  /\ scaled_model_status_ = OPTIMAL
  /\ run_.presolve_status = "Reduced"
  /\ ~isSolutionConsistent(presolve_.reduced_lp, solution_)
  /\ isSolutionConsistent(lp_, solution_)
  /\ basis_.valid_

\* C4: whenever run() returns with scaled status REACHED_TIME_LIMIT or
\* REACHED_ITERATION_LIMIT, Solution, Basis and Info are cleared and run()
\* returned Warning; with REACHED_DUAL_OBJECTIVE_VALUE_UPPER_BOUND they are
\* cleared and run() returned OK.
C4_LimitsAndCutoffClearAll ==
  /\ (RunReturned /\ scaled_model_status_ \in {REACHED_TIME_LIMIT,
                                                REACHED_ITERATION_LIMIT}
      => /\ SolutionIsEmpty
         /\ BasisIsEmpty
         /\ info_ = ClearedInfo
         /\ last_.status = Warning)
  /\ (RunReturned /\ scaled_model_status_ = REACHED_DUAL_OBJECTIVE_VALUE_UPPER_BOUND
      => /\ SolutionIsEmpty
         /\ BasisIsEmpty
         /\ info_ = ClearedInfo
         /\ last_.status = OK)

\* run() returned at the time limit: context 0 still holds what the solver
\* left, the caller-visible fields hold nothing.
C4_Witness ==
  /\ RunReturned
  /\ scaled_model_status_ = REACHED_TIME_LIMIT
  /\ hmos_[0].solution_.col_value > 0
  /\ hmos_[0].basis_.valid_
  /\ SolutionIsEmpty

\* C5 (as claimed): when run() returns with scaled status PRIMAL_INFEASIBLE
\* the Solution is cleared and the finalizer leaves Basis and Info exactly as
\* they were; with PRIMAL_UNBOUNDED Solution and Info are cleared and Basis is
\* left as it was; run() returns OK in both cases.
C5_InfeasibleLeavesBasisAndInfo ==
  [][/\ (FinalizerStep /\ scaled_model_status_ = PRIMAL_INFEASIBLE =>
           /\ SolutionIsEmpty'
           /\ basis_' = basis_
           /\ info_' = info_
           /\ last_'.status = OK)
     /\ (FinalizerStep /\ scaled_model_status_ = PRIMAL_UNBOUNDED =>
           /\ SolutionIsEmpty'
           /\ basis_' = basis_
           /\ info_' = ClearedInfo
           /\ last_'.status = OK)]_vars

\* C5 (amended): when run() returns with scaled status PRIMAL_INFEASIBLE the
\* Solution is cleared, the primal and dual solution status of Info are
\* reset to not-set, and the finalizer leaves Basis and every other field of
\* Info as they were; with PRIMAL_UNBOUNDED Solution and Info are cleared and
\* Basis is left as it was; run() returns OK in both cases.
C5_InfeasibleResetsSolutionStatus ==
  [][/\ (FinalizerStep /\ scaled_model_status_ = PRIMAL_INFEASIBLE =>
           /\ SolutionIsEmpty'
           /\ basis_' = basis_
           /\ info_' = [info_ EXCEPT !.primal_status = STATUS_NOTSET,
                                     !.dual_status = STATUS_NOTSET]
           /\ last_'.status = OK)
     /\ (FinalizerStep /\ scaled_model_status_ = PRIMAL_UNBOUNDED =>
           /\ SolutionIsEmpty'
           /\ basis_' = basis_
           /\ info_' = ClearedInfo
           /\ last_'.status = OK)]_vars

\* run() returned primal infeasible from presolve: Info still holds the
\* statistics of the earlier optimal solve, but for its two status codes,
\* and the Basis still has its arrays.
C5_Witness ==
  /\ RunReturned
  /\ scaled_model_status_ = PRIMAL_INFEASIBLE
  /\ run_.presolve_status = "Infeasible"
  /\ info_.from = "solve_original"
  /\ info_.max_primal_infeasibility = 1
  /\ info_.primal_status = STATUS_NOTSET
  /\ basis_.col_status > 0
  /\ SolutionIsEmpty

\* C6: for an LP with no columns run() returns OK with the scaled and the
\* unscaled status MODEL_EMPTY, empty Solution arrays and an invalid, empty
\* Basis, and calls neither presolve, nor the LP solver, nor postsolve.
C6_NoColumnsIsModelEmpty ==
  /\ (RunReturned /\ lp_.numCol_ = 0 =>
        /\ last_.status = OK
        /\ model_status_ = MODEL_EMPTY
        /\ scaled_model_status_ = MODEL_EMPTY
        /\ SolutionIsEmpty
        /\ BasisIsEmpty
        /\ calls_ = <<>>)
  /\ (run_.pc # "idle" /\ lp_.numCol_ = 0 =>
        run_.pc = "beforeReturnFromRun" /\ calls_ = <<>>)

\* run() returned for an LP with a row and no columns.
C6_Witness ==
  /\ RunReturned
  /\ lp_.numCol_ = 0
  /\ lp_.numRow_ > 0
  /\ model_status_ = MODEL_EMPTY
  /\ run_.finalized = 1

\* C7: if presolve reports Infeasible (Unbounded), run() returns OK with the
\* scaled and the unscaled status PRIMAL_INFEASIBLE (PRIMAL_UNBOUNDED) and
\* an empty Solution, and presolve is the only stage that run() invoked.
C7_PresolveDetectedStatus ==
  /\ (RunReturned /\ run_.presolve_status = "Infeasible" =>
        /\ last_.status = OK
        /\ model_status_ = PRIMAL_INFEASIBLE
        /\ scaled_model_status_ = PRIMAL_INFEASIBLE
        /\ SolutionIsEmpty
        /\ calls_ = <<PresolveCall>>)
  /\ (RunReturned /\ run_.presolve_status = "Unbounded" =>
        /\ last_.status = OK
        /\ model_status_ = PRIMAL_UNBOUNDED
        /\ scaled_model_status_ = PRIMAL_UNBOUNDED
        /\ SolutionIsEmpty
        /\ calls_ = <<PresolveCall>>)
  /\ (run_.presolve_status \in {"Infeasible", "Unbounded"} =>
        calls_ = <<PresolveCall>>)

\* run() returned after presolve reported Infeasible, on an instance whose
\* context 0 still holds the solution of an earlier solve.
C7_Witness ==
  /\ RunReturned
  /\ run_.presolve_status = "Infeasible"
  /\ hmos_[0].solution_.col_value > 0
  /\ SolutionIsEmpty

\* C8 (as claimed): a run() called on a freshly constructed instance, or
\* straight after clearModel, with model_file at its default, returns Error
\* without invoking any stage.
C8_NoModelIsError ==
  [][(/\ run_.pc # "idle"
      /\ run_'.pc = "idle"
      /\ last_.op \in {"Highs", "clearModel"}
      /\ options_.model_file = FILENAME_DEFAULT)
     => last_'.status = Error /\ calls_' = <<>>]_vars

\* run() on a freshly constructed instance returned OK with MODEL_EMPTY.
C8_Witness ==
  /\ RunReturned
  /\ lp_ = EmptyLp
  /\ last_.status = OK
  /\ model_status_ = MODEL_EMPTY
  /\ calls_ = <<>>

\* C9: for an LP with at least one column, run() invokes presolve if and
\* only if, at the decision, the caller-visible Basis is not valid and the
\* presolve option is not "off"; otherwise presolve is never invoked in that
\* run() and context 0 is solved directly.
C9_PresolveDecision ==
  /\ [][(run_.pc = "idle" /\ run_'.pc # "idle" /\ lp_.numCol_ >= 1) =>
          /\ run_'.pc \in {"runPresolve", "solveOriginal"}
          /\ (run_'.pc = "runPresolve") =
               (~basis_.valid_ /\ options_.presolve # off_string)
          /\ run_'.solved_hmo = original_hmo]_vars
  /\ [](\A i \in 1..Len(calls_) : calls_[i].stage = "presolve" => i = 1)
  /\ [](run_.pc = "runPresolve" =>
          calls_ = <<>> /\ ~basis_.valid_ /\ options_.presolve # off_string)
  /\ [](run_.pc = "solveOriginal" /\ run_.presolve_status = "NotSet" =>
          /\ calls_ = <<>>
          /\ basis_.valid_ \/ options_.presolve = off_string
          /\ run_.solved_hmo = original_hmo)
  /\ [](RunReturned /\ run_.presolve_status = "NotSet" /\ lp_.numCol_ >= 1 =>
          calls_ = <<HotStartCall>>)

\* run() is about to solve context 0 directly although presolve is on,
\* because the caller-visible Basis is valid.
C9_Witness ==
  /\ run_.pc = "solveOriginal"
  /\ calls_ = <<>>
  /\ basis_.valid_
  /\ options_.presolve = on_string
  /\ lp_.numCol_ >= 1

\* C10: when presolve reports Reduced and the solve of the reduced context
\* ends with scaled status OPTIMAL, run() invokes postsolve exactly once and
\* then, if a solution was recovered, the LP solver exactly once more, on
\* context 0 seeded with the recovered solution and a valid basis; the
\* stages come in the order presolve, reduced solve, postsolve, hot start.
C10_ReducedThenPostsolveThenHotStart ==
  /\ (run_.pc = "runPostsolve" /\ run_.presolve_status = "Reduced" =>
        /\ calls_ = <<PresolveCall, ReducedSolveCall>>
        /\ hmos_[1].scaled_model_status_ = OPTIMAL)
  /\ (run_.pc = "hotStart" /\ run_.presolve_status = "Reduced" =>
        /\ calls_ = <<PresolveCall, ReducedSolveCall, PostsolveCall>>
        /\ presolve_.recovered_solution_ = FullSolution(lp_, "postsolve")
        /\ run_.solved_hmo = original_hmo
        /\ hmos_[0].solution_ = presolve_.recovered_solution_
        /\ hmos_[0].basis_ = FullBasis(lp_, TRUE, "postsolve")
        /\ hmos_[0].basis_.valid_)
  /\ (/\ run_.pc = "beforeReturnFromRun"
      /\ run_.presolve_status = "Reduced"
      /\ hmos_[1].scaled_model_status_ = OPTIMAL
      => \/ /\ calls_ = <<PresolveCall, ReducedSolveCall, PostsolveCall>>
            /\ presolve_.recovered_solution_ = EmptySolution
            /\ model_status_ = POSTSOLVE_ERROR
         \/ /\ calls_ = <<PresolveCall, ReducedSolveCall, PostsolveCall,
                          HotStartCall>>
            /\ presolve_.recovered_solution_ = FullSolution(lp_, "postsolve"))
  /\ (/\ run_.pc = "beforeReturnFromRun"
      /\ run_.presolve_status = "Reduced"
      /\ hmos_[1].scaled_model_status_ # OPTIMAL
      => calls_ = <<PresolveCall, ReducedSolveCall>>)

\* The hot start that follows a successful postsolve has been made and
\* run() is about to return.
C10_Witness ==
  /\ run_.pc = "beforeReturnFromRun"
  /\ run_.presolve_status = "Reduced"
  /\ hmos_[1].scaled_model_status_ = OPTIMAL
  /\ calls_ = <<PresolveCall, ReducedSolveCall, PostsolveCall, HotStartCall>>
  /\ hmos_[0].solution_.from = "solve_original"

\* C11: postsolve is invoked in a run() only from a state in which presolve
\* reported Reduced or ReducedToEmpty and the solved context (the reduced
\* context, or context 0 when reduced to empty) has scaled status OPTIMAL; it
\* is the stage right after the reduced solve (or right after presolve when
\* reduced to empty), and a run() whose presolve reported anything else, or
\* whose reduced context ended with another status, has no postsolve call.
C11_PostsolveOnlyAfterOptimal ==
  /\ [][(calls_' # calls_ /\ Len(calls_') > 0
          /\ calls_'[Len(calls_')].stage = "postsolve")
        => /\ run_.presolve_status \in {"Reduced", "ReducedToEmpty"}
           /\ run_.solved_hmo =
                IF run_.presolve_status = "Reduced" THEN 1 ELSE original_hmo
           /\ hmos_[run_.solved_hmo].scaled_model_status_ = OPTIMAL]_vars
  /\ [](\A i \in 1..Len(calls_) :
          calls_[i].stage = "postsolve" =>
            \/ /\ run_.presolve_status = "Reduced"
               /\ i = 3
               /\ calls_[2] = ReducedSolveCall
            \/ /\ run_.presolve_status = "ReducedToEmpty"
               /\ i = 2)
  /\ []((size(hmos_) = 2 /\ hmos_[1].scaled_model_status_ # OPTIMAL) =>
          \A i \in 1..Len(calls_) : calls_[i].stage # "postsolve")

\* A run() whose presolve reduced the LP to empty went from presolve straight
\* to postsolve and the hot start, and has returned.
C11_Witness ==
  /\ RunReturned
  /\ run_.presolve_status = "ReducedToEmpty"
  /\ calls_ = <<PresolveCall, PostsolveCall, HotStartCall>>

\* C12 (as claimed): when postsolve returns anything other than
\* SolutionRecovered, run() returns Error, no hot start follows the postsolve
\* call, and on return the caller-visible model status is POSTSOLVE_ERROR.
C12_PostsolveFailureIsPostsolveError ==
  (/\ RunReturned
   /\ run_.postsolve_status \notin {"NotSet", "SolutionRecovered"})
  => /\ last_.status = Error
     /\ calls_[Len(calls_)] = PostsolveCall
     /\ model_status_ = POSTSOLVE_ERROR

\* run() returned Error after a failed postsolve, without a hot start, and
\* the caller-visible status pair is NOTSET.
C12_Witness ==
  /\ RunReturned
  /\ run_.postsolve_status = "BasisError"
  /\ last_.status = Error
  /\ calls_ = <<PresolveCall, ReducedSolveCall, PostsolveCall>>
  /\ run_.finalized = 1
  /\ model_status_ = NOTSET
  /\ scaled_model_status_ = NOTSET

\* C13 (as claimed): when presolve reports Timeout or OptionsError run()
\* returns Warning, when it reports any other error run() returns Error; in
\* all three cases the caller-visible model status on return is
\* PRESOLVE_ERROR and the presolve call is the only stage call of the run().
C13_PresolveErrorOutcome ==
  (/\ RunReturned
   /\ run_.presolve_status \in {"Timeout", "OptionsError", "Error", "NullError"})
  => /\ last_.status = IF run_.presolve_status \in {"Timeout", "OptionsError"}
                       THEN Warning ELSE Error
     /\ model_status_ = PRESOLVE_ERROR
     /\ calls_ = <<PresolveCall>>

\* run() returned Error after presolve reported Error, through the finalizer,
\* and the caller-visible model status is NOTSET.
C13_Witness ==
  /\ RunReturned
  /\ run_.presolve_status = "Error"
  /\ last_.status = Error
  /\ calls_ = <<PresolveCall>>
  /\ run_.finalized = 1
  /\ model_status_ = NOTSET

\* C14 (as claimed): every return of run() is made by the step that executes
\* beforeReturnFromRun, and a run() that has returned has executed it exactly
\* once.
C14_FinalizerOnEveryReturn ==
  /\ [][(run_.pc # "idle" /\ run_'.pc = "idle") => FinalizerStep]_vars
  /\ [](RunReturned => run_.finalized = 1)

\* run() returned Error because cleanBounds failed on the reduced LP, and
\* beforeReturnFromRun was not executed.
C14_Witness ==
  /\ RunReturned
  /\ run_.presolve_status = "Reduced"
  /\ calls_ = <<PresolveCall>>
  /\ last_.status = Error
  /\ run_.finalized = 0

\* C15: the switch of beforeReturnFromRun has a case for every value of the
\* model-status enumeration, and whenever the finalizer is about to run the
\* scaled status is a value of the enumeration that selects one of its cases:
\* no status falls through without a retention rule.
C15_FinalizerMappingTotal ==
  /\ \A status \in HighsModelStatus :
       CaseOfBeforeReturn(status) \in
         {"error", "empty", "infeasible", "unbounded", "optimal", "cutoff",
          "limit"}
  /\ run_.pc = "beforeReturnFromRun" =>
       /\ scaled_model_status_ \in HighsModelStatus
       /\ CaseOfBeforeReturn(scaled_model_status_) # "none"

\* The finalizer is about to run with the scaled status still NOTSET and the
\* reduced context in the pool: the solve of the reduced LP failed.
C15_Witness ==
  /\ run_.pc = "beforeReturnFromRun"
  /\ scaled_model_status_ = NOTSET
  /\ run_.return_status = Error
  /\ size(hmos_) = 2

\* C16 (as claimed): whenever run() has returned, the caller-visible unscaled
\* status equals the scaled status, except that with the scaled status
\* OPTIMAL the unscaled status may be NOTSET; and the assertions of the
\* finalizer held.
C16_StatusesReconciledOnReturn ==
  RunReturned =>
    /\ \/ model_status_ = scaled_model_status_
       \/ scaled_model_status_ = OPTIMAL /\ model_status_ = NOTSET
    /\ run_.asserts_ok

\* run() returned Warning after a presolve options error with the unscaled
\* status PRESOLVE_ERROR and the scaled status NOTSET.
C16_Witness ==
  /\ RunReturned
  /\ run_.presolve_status = "OptionsError"
  /\ last_.status = Warning
  /\ model_status_ = PRESOLVE_ERROR
  /\ scaled_model_status_ = NOTSET

\* C17: while the hot start of context 0 after a successful postsolve is
\* about to run, the options the solver sees have highs_min_threads and
\* highs_max_threads both 1 and a solver choice that is not interior point
\* (simplex, or the default choice, which is simplex), whatever the caller
\* configured.
C17_HotStartSingleThreadedSimplex ==
  run_.pc = "hotStart" =>
    /\ run_.postsolve_status = "SolutionRecovered"
    /\ run_.solved_hmo = original_hmo
    /\ options_.highs_min_threads = 1
    /\ options_.highs_max_threads = 1
    /\ options_.solver # ipm_string
    /\ options_.solver \in {simplex_string, choose_string}
    /\ (run_.options_at_call.solver = ipm_string =>
          options_.solver = simplex_string)

\* The hot start is about to run for a caller who configured interior point
\* and two threads at least.
C17_Witness ==
  /\ run_.pc = "hotStart"
  /\ run_.options_at_call.solver = ipm_string
  /\ run_.options_at_call.highs_min_threads = 2
  /\ run_.options_at_call.highs_max_threads = 8
  /\ options_.solver = simplex_string
  /\ options_.highs_max_threads = 1

\* C18 (as claimed): while the hot start of context 0 after postsolve is
\* about to run, the dual objective upper bound the solver sees is infinite,
\* and the caller's value is in place after the hot start.
C18_HotStartSuspendsCutoff ==
  /\ [](run_.pc = "hotStart" =>
          options_.dual_objective_value_upper_bound = HIGHS_CONST_INF)
  /\ [][(run_.pc = "hotStart" /\ run_'.pc # "hotStart") =>
          options_'.dual_objective_value_upper_bound =
            run_.options_at_call.dual_objective_value_upper_bound]_vars

\* C18 (amended): while the hot start of context 0 after postsolve is about
\* to run, the dual objective upper bound the solver sees is the value the
\* caller configured (the cut-off is suspended for the solve of the reduced
\* LP only), and it is still that value after the hot start.
C18_HotStartKeepsCutoff ==
  /\ [](run_.pc = "hotStart" =>
          options_.dual_objective_value_upper_bound =
            run_.options_at_call.dual_objective_value_upper_bound)
  /\ [][(run_.pc = "hotStart" /\ run_'.pc # "hotStart") =>
          options_'.dual_objective_value_upper_bound =
            run_.options_at_call.dual_objective_value_upper_bound]_vars

\* The hot start is about to run, after a solve of the reduced LP, for a
\* caller who configured a finite cut-off: the cut-off is in force.
C18_Witness ==
  /\ run_.pc = "hotStart"
  /\ run_.presolve_status = "Reduced"
  /\ calls_ = <<PresolveCall, ReducedSolveCall, PostsolveCall>>
  /\ run_.options_at_call.dual_objective_value_upper_bound = "finite"
  /\ options_.dual_objective_value_upper_bound = "finite"

\* C19: while the solver is about to run on the reduced context the dual
\* objective upper bound is infinite and the caller's value is saved; the
\* step on which that solve returns puts the caller's value back whatever the
\* outcome of the solve, an Error included.
C19_CutoffSuspendedForReducedSolve ==
  /\ [](run_.pc = "solveReduced" =>
          /\ options_.dual_objective_value_upper_bound = HIGHS_CONST_INF
          /\ run_.save_dual_objective_value_upper_bound =
               run_.options_at_call.dual_objective_value_upper_bound)
  /\ [][(run_.pc = "solveReduced" /\ run_'.pc # "solveReduced") =>
          options_'.dual_objective_value_upper_bound =
            run_.options_at_call.dual_objective_value_upper_bound]_vars

\* The solve of the reduced LP returned Error for a caller who configured a
\* finite cut-off: the finalizer is about to run and the cut-off is back.
C19_Witness ==
  /\ run_.pc = "beforeReturnFromRun"
  /\ run_.return_status = Error
  /\ calls_ = <<PresolveCall, ReducedSolveCall>>
  /\ size(hmos_) = 2
  /\ run_.options_at_call.dual_objective_value_upper_bound = "finite"
  /\ options_.dual_objective_value_upper_bound = "finite"

\* C20 (as claimed): whenever run() has returned, with OK, Warning or Error,
\* each option the orchestrator consumes (presolve, solver, run_crossover,
\* time_limit, dual_objective_value_upper_bound, highs_min_threads,
\* highs_max_threads, simplex_strategy) has the value it had when run() was
\* called.
C20_OptionsRestoredOnReturn ==
  RunReturned =>
    /\ options_.presolve = run_.options_at_call.presolve
    /\ options_.solver = run_.options_at_call.solver
    /\ options_.run_crossover = run_.options_at_call.run_crossover
    /\ options_.time_limit = run_.options_at_call.time_limit
    /\ options_.dual_objective_value_upper_bound =
         run_.options_at_call.dual_objective_value_upper_bound
    /\ options_.highs_min_threads = run_.options_at_call.highs_min_threads
    /\ options_.highs_max_threads = run_.options_at_call.highs_max_threads
    /\ options_.simplex_strategy = run_.options_at_call.simplex_strategy

\* run() was called with solver ipm and run_crossover off, took the presolve
\* branch, returned OK, and run_crossover is on.
C20_Witness ==
  /\ RunReturned
  /\ last_.status = OK
  /\ run_.options_at_call.solver = ipm_string
  /\ ~run_.options_at_call.run_crossover
  /\ options_.run_crossover
  /\ Len(calls_) > 0
  /\ calls_[1] = PresolveCall

\* ------------------------------------------------------------------ C21
\* C21: in every reachable state, whatever public operations led to it
\* (loads, rejected loads included, clearModel, setBasis, setSolution, edits,
\* run, getUseModelStatus), a caller-visible Basis that is valid has as many
\* column statuses as the current model has columns and as many row statuses
\* as it has rows.
C21_ValidBasisMatchesModel ==
  basis_.valid_ =>
    /\ basis_.col_status = lp_.numCol_
    /\ basis_.row_status = lp_.numRow_

\* passModel has returned Error and the valid Basis of the model loaded
\* before it is still there, next to an lp_ of other dimensions
C21_Witness ==
  /\ last_ = Returned("passModel", Error)
  /\ basis_.valid_
  /\ basis_.col_status # lp_.numCol_ \/ basis_.row_status # lp_.numRow_

\* ------------------------------------------------------------------ C22
\* An array of the caller-visible Solution is empty or has the length n
EmptyOrSized(array, n) == array = 0 \/ array = n

\* C22: in every reachable state each of the four arrays of the
\* caller-visible Solution is empty or exactly as long as the current model
\* has columns (column values, column duals) or rows (row values, row duals).
C22_SolutionArraysEmptyOrSized ==
  /\ EmptyOrSized(solution_.col_value, lp_.numCol_)
  /\ EmptyOrSized(solution_.col_dual, lp_.numCol_)
  /\ EmptyOrSized(solution_.row_value, lp_.numRow_)
  /\ EmptyOrSized(solution_.row_dual, lp_.numRow_)

\* setSolution has returned and the column values of the caller-visible
\* Solution are neither empty nor as many as the model has columns
C22_Witness ==
  /\ last_.op = "setSolution"
  /\ ~EmptyOrSized(solution_.col_value, lp_.numCol_)

\* passModel has returned Error and the Solution of the model loaded before
\* it is still there, next to an lp_ of other dimensions
C22_RejectedLoadKeepsSolution ==
  /\ last_ = Returned("passModel", Error)
  /\ ~C22_SolutionArraysEmptyOrSized

\* ------------------------------------------------------------------ C23
\* C23: once passModel has returned OK, whatever the runs, rejected loads
\* and setBasis calls before it left behind, the pool is exactly one fresh
\* context for the new model, both model statuses are not-set, the
\* caller-visible Solution is empty, the Basis is invalid and empty, the
\* Info is cleared and the presolve session is cleared.
C23_LoadResetsEverything ==
  (last_ = Returned("passModel", OK) /\ run_.pc = "idle") =>
    /\ hmos_ = FreshPool
    /\ model_status_ = NOTSET
    /\ scaled_model_status_ = NOTSET
    /\ SolutionIsEmpty
    /\ ~basis_.valid_
    /\ basis_.col_status = 0
    /\ basis_.row_status = 0
    /\ info_ = ClearedInfo
    /\ presolve_ = ClearedPresolve

\* passModel has returned OK with an LP of one column and one row, after a
\* run() of an earlier model (the run clock it started is still running)
C23_Witness ==
  /\ last_ = Returned("passModel", OK)
  /\ run_.pc = "idle"
  /\ lp_.numCol_ = 1
  /\ lp_.numRow_ = 1
  /\ timer_.run_clock_running

\* ------------------------------------------------------------------ C24
\* What last_ records as the operation of an edit
EditOps ==
  {"edit", "addRow", "deleteRows", "changeColsCost", "changeColsBounds",
   "changeRowsBounds", "changeCoeff", "changeObjectiveSense"}

\* The step of an edit (add, delete, change), from its call to its return
EditReturns == Idle /\ run_'.pc = "idle" /\ last_'.op \in EditOps

\* C24: every edit for which the delegate reports failure returns false and
\* leaves the caller-visible Solution and Basis exactly as they were before
\* the call.
C24_FailedEditChangesNothing ==
  [][(EditReturns /\ last_'.status = Error) =>
       /\ last_'.out = FALSE
       /\ solution_' = solution_
       /\ basis_' = basis_]_vars

\* An edit has failed in a state with a valid Basis and a Solution, which
\* are still there
C24_Witness ==
  /\ run_.pc = "idle"
  /\ last_.op \in EditOps
  /\ last_.status = Error
  /\ last_.out = FALSE
  /\ basis_.valid_
  /\ solution_.col_value > 0

\* ------------------------------------------------------------------ C25
\* The caller-visible Solution and Basis are in step with context 0 and
\* the dimensions of the model
InStepWithContext ==
  /\ isSolutionConsistent(lp_, solution_)
  /\ IF hmos_[0].basis_.valid_
     THEN basis_ = hmos_[0].basis_
     ELSE /\ ~basis_.valid_
          /\ basis_.col_status = lp_.numCol_
          /\ basis_.row_status = lp_.numRow_

\* C25: after every successful edit - adding or deleting rows or columns,
\* and equally changing column or row bounds, costs, a matrix coefficient or
\* the objective sense - the arrays of the caller-visible Solution are sized
\* to the dimensions of the model, and the caller-visible Basis is the basis
\* of context 0 if that is still valid, and otherwise is invalid and sized to
\* the dimensions of the model.
C25_SuccessfulEditResynchronises ==
  (run_.pc = "idle" /\ last_.op \in EditOps /\ last_.status = OK) =>
    InStepWithContext

\* changeColsBounds has succeeded on a model with a column, and the arrays
\* of the Solution do not have the dimensions of the model
C25_Witness ==
  /\ run_.pc = "idle"
  /\ last_.op = "changeColsBounds"
  /\ last_.status = OK
  /\ last_.out = TRUE
  /\ lp_.numCol_ > 0
  /\ ~isSolutionConsistent(lp_, solution_)

\* The part of C25 about the edits that add or delete rows or columns
C25_StructuralEditResynchronises ==
  (run_.pc = "idle" /\ last_.op \in {"edit", "addRow", "deleteRows"}
     /\ last_.status = OK) =>
    InStepWithContext

\* A change of data has succeeded, and the caller-visible Basis is valid
\* although the basis of context 0 no longer is
C25_StaleBasisAfterChange ==
  /\ run_.pc = "idle"
  /\ last_.op \in {"changeColsCost", "changeColsBounds", "changeRowsBounds",
                   "changeCoeff", "changeObjectiveSense"}
  /\ last_.status = OK
  /\ basis_.valid_
  /\ ~hmos_[0].basis_.valid_

\* ------------------------------------------------------------------ C26
\* C26: when addRow has succeeded and deleteRows of the row it added
\* succeeds next, the model of context 0 has its original number of rows
\* again, the row arrays of the caller-visible Solution and the row statuses
\* of the Basis have that number of entries, and the column arrays have the
\* unchanged number of columns.
C26_AddRowDeleteRowsRoundTrip ==
  (run_.pc = "idle" /\ last_.op = "deleteRows" /\ last_.status = OK
     /\ last_.undoes_addRow) =>
    /\ LpOf(hmos_[0], lp_, presolve_) = last_.lp_before
    /\ solution_.row_value = last_.lp_before.numRow_
    /\ solution_.row_dual = last_.lp_before.numRow_
    /\ basis_.row_status = last_.lp_before.numRow_
    /\ solution_.col_value = last_.lp_before.numCol_
    /\ solution_.col_dual = last_.lp_before.numCol_
    /\ basis_.col_status = last_.lp_before.numCol_

\* addRow and then deleteRows of the added row have succeeded on a model
\* with a column, and the Basis that was valid before them still is
C26_Witness ==
  /\ run_.pc = "idle"
  /\ last_.op = "deleteRows"
  /\ last_.status = OK
  /\ last_.undoes_addRow
  /\ last_.lp_before.numCol_ > 0
  /\ basis_.valid_

\* ------------------------------------------------------------------ C27
\* getUseModelStatus calls run()
UseModelStatusCallsRun == gums_.pc = "idle" /\ gums_'.pc = "run"

\* getUseModelStatus returns after the run() it called
UseModelStatusReturnsAfterRun == gums_.pc = "run" /\ gums_'.pc = "idle"

\* The parts of C27 other than the path of the re-run: run() is called only
\* with the unscaled status not set, the tolerance check failed and the
\* re-run permitted, with the Basis invalid and presolve on; once that run()
\* has returned the only step is the return of getUseModelStatus, which
\* starts no other run() and puts the caller's presolve option back,
\* whatever run() returned.
UseModelStatusRerunsOnce ==
  /\ UseModelStatusCallsRun =>
       /\ model_status_ = NOTSET
       /\ ~unscaledOptimal(scaled_model_status_, info_,
                           gums_'.primal_tolerance, gums_'.dual_tolerance)
       /\ gums_'.rerun_from_logical_basis
       /\ gums_'.save_presolve = options_.presolve
       /\ ~basis_'.valid_
       /\ run_'.options_at_call.presolve = on_string
  /\ (gums_.pc = "run" /\ run_.pc = "idle") =>
       /\ UseModelStatusReturnsAfterRun
       /\ run_' = run_
       /\ calls_' = calls_
  /\ UseModelStatusReturnsAfterRun =>
       /\ run_.pc = "idle"
       /\ last_.op = "run"
       /\ last_'.ran
       /\ last_'.status = (IF last_.status = Error THEN Error ELSE OK)
       /\ options_'.presolve = gums_.save_presolve

\* C27 (as claimed): one call of getUseModelStatus invokes run() at most
\* once, and only when the unscaled status is not set, the tolerance check
\* has failed and a re-run is permitted; that run() starts with the Basis
\* invalid and presolve forced on, so that it takes the presolve path; the
\* check is repeated at most once; and the caller's presolve option is back
\* when getUseModelStatus returns, whether run() succeeded or returned Error.
C27_RerunOnceThroughPresolve ==
  [][/\ UseModelStatusRerunsOnce
     /\ UseModelStatusReturnsAfterRun =>
          (Len(calls_) > 0 /\ calls_[1] = PresolveCall)]_vars

\* C27 (amended): as claimed, but the re-run takes the presolve path only
\* when the model has a column: on a model without columns it returns
\* MODEL_EMPTY before any stage.
C27_RerunOnceThroughPresolveIfColumns ==
  [][/\ UseModelStatusRerunsOnce
     /\ UseModelStatusReturnsAfterRun =>
          IF lp_.numCol_ > 0
          THEN Len(calls_) > 0 /\ calls_[1] = PresolveCall
          ELSE calls_ = <<>> /\ model_status_ = MODEL_EMPTY]_vars

\* The caller had presolve off; getUseModelStatus has called run(), which
\* went through presolve and returned Error, and presolve is off again
C27_Witness ==
  /\ last_.op = "getUseModelStatus"
  /\ last_.ran
  /\ last_.status = Error
  /\ run_.options_at_call.presolve = on_string
  /\ options_.presolve = off_string
  /\ Len(calls_) > 0
  /\ calls_[1] = PresolveCall

\* ------------------------------------------------------------------ C28
\* getUseModelStatus returns without having called run()
UseModelStatusReturnsAtOnce ==
  /\ Idle
  /\ run_'.pc = "idle"
  /\ last_'.op = "getUseModelStatus"
  /\ ~last_'.ran

QueryOps ==
  {"getBasicVariables", "getBasisInverseRow", "getBasisInverseCol",
   "getBasisSolve", "getBasisTransposeSolve", "getReducedRow",
   "getReducedColumn"}

\* A query has just returned: the state is the one it was called in
QueryReturned == run_.pc = "idle" /\ last_.op \in QueryOps

\* C29: in every state reachable by loads, edits, setBasis() and runs, each
\* of getBasicVariables, getBasisInverseRow, getBasisInverseCol,
\* getBasisSolve, getBasisTransposeSolve, getReducedRow and getReducedColumn
\* returns Error and writes no output when context 0 holds no factorized
\* basis.
C29_QueriesNeedFactorizedBasis ==
  (QueryReturned /\ ~hmos_[0].has_invert) =>
    (last_.status = Error /\ last_.out = "none")

\* getBasicVariables has returned OK and written its output although
\* context 0 has a basis and no factorization of it
C29_Witness ==
  /\ QueryReturned
  /\ last_.op = "getBasicVariables"
  /\ last_.status = OK
  /\ last_.out = "written"
  /\ hmos_[0].has_basis
  /\ ~hmos_[0].has_invert

\* The part of C29 about the six queries other than getBasicVariables
C29_SolvesNeedFactorizedBasis ==
  (QueryReturned /\ last_.op # "getBasicVariables" /\ ~hmos_[0].has_invert) =>
    (last_.status = Error /\ last_.out = "none")

\* getBasicVariables returns Error and writes nothing when context 0 has no
\* simplex basis
C29_BasicVariablesNeedBasis ==
  (QueryReturned /\ last_.op = "getBasicVariables" /\ ~hmos_[0].has_basis) =>
    (last_.status = Error /\ last_.out = "none")

\* One of the six other queries has returned OK with its output written
C29_SolveAnswered ==
  /\ QueryReturned
  /\ last_.op # "getBasicVariables"
  /\ last_.status = OK
  /\ hmos_[0].has_invert

\* ------------------------------------------------------------------ C30
\* The caller calls run()
RunIsCalled == Idle /\ run_'.pc # "idle" /\ gums_'.pc = "idle"

\* A run() that did not start with presolve invokes the LP solver once, on
\* context 0, and no other stage
DirectSolveIsTheOnlyStage ==
  /\ run_.pc = "solveOriginal" /\ run_.presolve_status = "NotSet" =>
       /\ calls_ = <<>>
       /\ calls_' = <<Call("solve", original_hmo)>>
  /\ (Len(calls_') > 0 /\ calls_'[1].stage = "solve") =>
       calls_' = <<Call("solve", original_hmo)>>

\* C30 (as claimed): when the caller-visible Basis is valid at the call of
\* run(), made so by setBasis(basis) or left by a run() that ended optimal,
\* that run() does not invoke presolve, even with presolve on, copies the
\* Basis into context 0 before solving, and invokes the LP solver exactly
\* once, on context 0.
C30_ValidBasisSolvesDirectly ==
  [][/\ (RunIsCalled /\ basis_.valid_) =>
          /\ run_'.pc = "solveOriginal"
          /\ run_'.presolve_status = "NotSet"
          /\ calls_' = <<>>
          /\ hmos_'[original_hmo].basis_ = basis_
     /\ DirectSolveIsTheOnlyStage]_vars

\* C30 (amended): as claimed, for a model with at least one column; on a
\* model without columns run() returns MODEL_EMPTY before any stage, valid
\* Basis or not, and invokes nothing.
C30_ValidBasisSolvesDirectlyIfColumns ==
  [][/\ (RunIsCalled /\ basis_.valid_) =>
          IF lp_.numCol_ > 0
          THEN /\ run_'.pc = "solveOriginal"
               /\ run_'.presolve_status = "NotSet"
               /\ calls_' = <<>>
               /\ hmos_'[original_hmo].basis_ = basis_
          ELSE /\ run_'.pc = "beforeReturnFromRun"
               /\ calls_' = <<>>
               /\ model_status_' = MODEL_EMPTY
     /\ DirectSolveIsTheOnlyStage]_vars

\* run() was called with presolve on and a valid Basis set by the caller, and
\* has returned after one solve of context 0 and no other stage
C30_Witness ==
  /\ RunReturned
  /\ run_.options_at_call.presolve = on_string
  /\ run_.presolve_status = "NotSet"
  /\ calls_ = <<Call("solve", original_hmo)>>
  /\ lp_.numCol_ > 0

\* C31: when presolve reports ReducedToEmpty, run() adds no reduced context to
\* the pool and marks context 0 OPTIMAL (scaled and unscaled) without a solve;
\* postsolve is the next stage and is handed a reduced-space solution whose
\* four arrays are empty; the LP solver is invoked in such a run() only after
\* postsolve recovered a solution, exactly once, as the hot start on context 0.
C31_ReducedToEmptyGoesStraightToPostsolve ==
  /\ [][(run_.pc = "runPresolve" /\ run_'.presolve_status = "ReducedToEmpty")
        => /\ hmos_'[original_hmo].scaled_model_status_ = OPTIMAL
           /\ hmos_'[original_hmo].unscaled_model_status_ = OPTIMAL
           /\ size(hmos_') = 1
           /\ calls_' = <<PresolveCall>>
           /\ run_'.pc = "runPostsolve"]_vars
  /\ [][(run_.pc = "runPostsolve" /\ run_.presolve_status = "ReducedToEmpty")
        => /\ presolve_.reduced_solution_.col_value = 0
           /\ presolve_.reduced_solution_.col_dual = 0
           /\ presolve_.reduced_solution_.row_value = 0
           /\ presolve_.reduced_solution_.row_dual = 0
           /\ calls_' = <<PresolveCall, PostsolveCall>>
           /\ (run_'.pc = "hotStart"
                 <=> run_'.postsolve_status = "SolutionRecovered")
           /\ run_'.pc \in {"hotStart", "beforeReturnFromRun"}]_vars
  /\ [](run_.presolve_status = "ReducedToEmpty" =>
          /\ size(hmos_) = 1
          /\ \A i \in 1..Len(calls_) :
               calls_[i].stage = "solve" =>
                 /\ i = 3
                 /\ calls_ = <<PresolveCall, PostsolveCall, HotStartCall>>
                 /\ run_.postsolve_status = "SolutionRecovered")
  /\ []((RunReturned /\ run_.presolve_status = "ReducedToEmpty"
           /\ run_.postsolve_status = "SolutionRecovered")
          => calls_ = <<PresolveCall, PostsolveCall, HotStartCall>>)

\* Presolve reduced a model that had been solved before to empty; postsolve
\* recovered a solution and the hot start on context 0 has been made.
C31_Witness ==
  /\ RunReturned
  /\ run_.presolve_status = "ReducedToEmpty"
  /\ run_.postsolve_status = "SolutionRecovered"
  /\ calls_ = <<PresolveCall, PostsolveCall, HotStartCall>>
  /\ presolve_.reduced_solution_ = EmptySolution
  /\ size(hmos_) = 1

\* The solve of the reduced context has ended, without Error, in a status
\* other than OPTIMAL (a solve that fails leaves the new context NOTSET).
ReducedSolveEndsNonOptimal ==
  /\ run_.pc = "solveReduced"
  /\ hmos_'[1].scaled_model_status_ \notin {NOTSET, OPTIMAL}

\* C32: when presolve reports Reduced and the solve of the reduced context
\* ends without Error in a status other than OPTIMAL, context 0 inherits the
\* reduced context's scaled and unscaled status, neither postsolve nor the
\* hot start is invoked, the caller-visible status pair and Info are harvested
\* from the reduced context, and the caller-visible Solution and Basis are
\* copied from context 0, never from the reduced context.
C32_NonOptimalReducedSolveIsInherited ==
  /\ [][ReducedSolveEndsNonOptimal
        => /\ hmos_'[original_hmo].scaled_model_status_
                = hmos_'[1].scaled_model_status_
           /\ hmos_'[original_hmo].unscaled_model_status_
                = hmos_'[1].unscaled_model_status_
           /\ scaled_model_status_' = hmos_'[1].scaled_model_status_
           /\ model_status_' = hmos_'[1].unscaled_model_status_
           /\ info_' = hmos_'[1].unscaled_solution_params_
           /\ solution_' = hmos_'[original_hmo].solution_
           /\ basis_' = hmos_'[original_hmo].basis_
           /\ solution_' = hmos_[original_hmo].solution_
           /\ solution_'.from # "solve_reduced"
           /\ basis_'.from # "solve_reduced"
           /\ solution_'.col_value \in {0, lp_.numCol_}
           /\ solution_'.row_value \in {0, lp_.numRow_}
           /\ basis_'.col_status \in {0, lp_.numCol_}
           /\ basis_'.row_status \in {0, lp_.numRow_}
           /\ run_'.solved_hmo = 1
           /\ run_'.pc = "beforeReturnFromRun"
           /\ calls_' = <<PresolveCall, ReducedSolveCall>>]_vars
  /\ [][FinalizerStep => calls_' = calls_]_vars

\* The reduced context was found infeasible; context 0 has inherited the
\* status and run() is about to return with the statistics of the reduced
\* solve and the solution of context 0, which is not that of the reduced LP.
C32_Witness ==
  /\ run_.pc = "beforeReturnFromRun"
  /\ run_.presolve_status = "Reduced"
  /\ size(hmos_) = 2
  /\ hmos_[1].scaled_model_status_ = PRIMAL_INFEASIBLE
  /\ hmos_[original_hmo].scaled_model_status_ = PRIMAL_INFEASIBLE
  /\ model_status_ = PRIMAL_INFEASIBLE
  /\ info_ = hmos_[1].unscaled_solution_params_
  /\ solution_ = hmos_[original_hmo].solution_
  /\ solution_ # hmos_[1].solution_
  /\ calls_ = <<PresolveCall, ReducedSolveCall>>

\* The LP solver has returned Error on the reduced context, which it left
\* as it was pushed, and run() is at its finalizer.
ReducedSolveFailed ==
  /\ run_.pc = "beforeReturnFromRun"
  /\ run_.presolve_status = "Reduced"
  /\ size(hmos_) = 2
  /\ hmos_[1].scaled_model_status_ = NOTSET

\* C33: when the LP solver returns Error on the reduced context, run() returns
\* Error with no postsolve, no hot start and no second solve on the original
\* LP; the reduced context is removed from the pool and the caller-visible
\* Solution, Basis and Info are cleared.
C33_ReducedSolveErrorIsError ==
  /\ [][(run_.pc = "solveReduced" /\ hmos_'[1].scaled_model_status_ = NOTSET)
        => /\ ReducedSolveFailed'
           /\ run_'.return_status = Error
           /\ calls_' = <<PresolveCall, ReducedSolveCall>>]_vars
  /\ [][(ReducedSolveFailed /\ FinalizerStep)
        => /\ last_' = [op |-> "run", status |-> Error, out |-> "none"]
           /\ calls_' = <<PresolveCall, ReducedSolveCall>>
           /\ size(hmos_') = 1
           /\ hmos_'[original_hmo] = hmos_[original_hmo]
           /\ SolutionIsEmpty'
           /\ BasisIsEmpty'
           /\ info_' = ClearedInfo]_vars
  /\ [](ReducedSolveFailed => run_.return_status = Error)

\* run() has returned Error after a failed solve of the reduced context, on
\* an instance whose earlier run() had left statistics and a solution.
C33_Witness ==
  /\ RunReturned
  /\ last_.status = Error
  /\ run_.presolve_status = "Reduced"
  /\ run_.finalized = 1
  /\ calls_ = <<PresolveCall, ReducedSolveCall>>
  /\ size(hmos_) = 1
  /\ hmos_[original_hmo].solution_.from = "solve_original"
  /\ SolutionIsEmpty
  /\ info_ = ClearedInfo

\* The adapter's postsolve has been called by runPostsolve and has returned
PostsolveCalled ==
  /\ run_.postsolve_status \notin
       {"NotSet", "ReducedSolutionDimenionsError", "NoPostsolve"}
  /\ Len(calls_) > 0
  /\ \E i \in 1..Len(calls_) : calls_[i] = PostsolveCall

\* C34: for a maximize-sense model, whenever runPostsolve calls the adapter's
\* postsolve the column duals of the reduced solution are negated exactly
\* once before the call (negateReducedLpColDuals(true)) and exactly once
\* after it returns (negateReducedLpColDuals(false)), whatever the call
\* returns; for a minimize-sense model they are never negated; and when
\* presolve reports Reduced on a maximize-sense model the reduced objective
\* is negated exactly once, before the reduced LP is solved.
C34_SignFlipsAroundPostsolve ==
  /\ (PostsolveCalled =>
        presolve_.col_dual_negations =
          IF lp_.sense_ = MAXIMIZE THEN <<TRUE, FALSE>> ELSE <<>>)
  /\ (run_.pc = "runPostsolve" => presolve_.col_dual_negations = <<>>)
  /\ (lp_.sense_ = MINIMIZE =>
        presolve_.col_dual_negations = <<>> /\ presolve_.cost_negations = 0)
  /\ (run_.pc = "solveReduced" =>
        presolve_.cost_negations = IF lp_.sense_ = MAXIMIZE THEN 1 ELSE 0)
  /\ presolve_.cost_negations <= 1

\* On a maximize-sense model the adapter's postsolve has failed and run() has
\* returned with the column duals of the reduced solution negated once only.
C34_Witness ==
  /\ RunReturned
  /\ lp_.sense_ = MAXIMIZE
  /\ run_.presolve_status = "Reduced"
  /\ run_.postsolve_status = "BasisError"
  /\ presolve_.cost_negations = 1
  /\ presolve_.col_dual_negations = <<TRUE>>

\* What holds of the sign flips: both are made when postsolve recovers a
\* solution, none on a minimize-sense model, and the reduced objective of a
\* maximize-sense model is negated once before the reduced solve.
C34_SignFlipsWhenRecovered ==
  /\ (PostsolveCalled /\ run_.postsolve_status = "SolutionRecovered" =>
        presolve_.col_dual_negations =
          IF lp_.sense_ = MAXIMIZE THEN <<TRUE, FALSE>> ELSE <<>>)
  /\ (PostsolveCalled /\ run_.postsolve_status # "SolutionRecovered" =>
        presolve_.col_dual_negations =
          IF lp_.sense_ = MAXIMIZE THEN <<TRUE>> ELSE <<>>)
  /\ (run_.pc = "runPostsolve" => presolve_.col_dual_negations = <<>>)
  /\ (lp_.sense_ = MINIMIZE =>
        presolve_.col_dual_negations = <<>> /\ presolve_.cost_negations = 0)
  /\ (run_.pc = "solveReduced" =>
        presolve_.cost_negations = IF lp_.sense_ = MAXIMIZE THEN 1 ELSE 0)
  /\ presolve_.cost_negations <= 1

\* The step of run() on which the named stage ends and its span is closed
StageEnds(pc) == run_.pc = pc /\ run_'.pc # pc

\* C35: for every run() that invokes postsolve, the recorded postsolve span
\* this_postsolve_time equals the reading of the postsolve clock after
\* postsolve minus its reading before, as the presolve span and the two
\* solve spans do for their clocks; it is therefore never negative, and when
\* it is positive it is part of the sum of the four spans, which then
\* accounts for the whole time of the call.
C35_PostsolveSpanIsElapsedTime ==
  /\ [][StageEnds("runPostsolve")
        => /\ run_'.this_postsolve_time
                = timer_.postsolve_clock - timer_.clock_start
           /\ run_'.this_postsolve_time >= 0]_vars
  /\ []((/\ run_.pc = "beforeReturnFromRun"
         /\ run_.postsolve_status = "SolutionRecovered"
         /\ run_.this_solve_time > 0)
        => run_.sum_time = run_.this_solve_time)

\* run() has returned after a postsolve during which the postsolve clock
\* advanced by one tick from zero: the recorded span is minus one, and the
\* sum of the spans falls short of the time of the call.
C35_Witness ==
  /\ RunReturned
  /\ run_.postsolve_status = "SolutionRecovered"
  /\ timer_.postsolve_clock = 1
  /\ run_.this_postsolve_time = -1
  /\ run_.this_solve_time >= 1
  /\ run_.sum_time < run_.this_solve_time

\* What holds of the four spans: the presolve span and the two solve spans
\* are the reading after minus the reading before; the postsolve span is
\* minus the sum of the two readings, never positive and never in the sum.
C35_SpansAsComputed ==
  /\ [][StageEnds("runPresolve")
        => /\ run_'.this_presolve_time
                = timer_.presolve_clock - timer_.clock_start
           /\ run_'.this_presolve_time >= 0]_vars
  /\ [][StageEnds("solveReduced")
        => /\ run_'.this_solve_presolved_lp_time
                = timer_.solve_clock - timer_.clock_start
           /\ run_'.this_solve_presolved_lp_time >= 0]_vars
  /\ [][(StageEnds("solveOriginal") \/ StageEnds("hotStart"))
        => /\ run_'.this_solve_original_lp_time
                = timer_.solve_clock - timer_.clock_start
           /\ run_'.this_solve_original_lp_time >= 0]_vars
  /\ [][StageEnds("runPostsolve")
        => /\ run_'.this_postsolve_time
                = 0 - timer_.clock_start - timer_.postsolve_clock
           /\ run_'.this_postsolve_time <= 0]_vars
  /\ []((run_.pc = "beforeReturnFromRun" /\ run_.this_solve_time > 0)
        => run_.sum_time
             = (IF run_.this_presolve_time > 0
                THEN run_.this_presolve_time ELSE 0)
               + (IF run_.this_solve_presolved_lp_time > 0
                  THEN run_.this_solve_presolved_lp_time ELSE 0)
               + (IF run_.this_solve_original_lp_time > 0
                  THEN run_.this_solve_original_lp_time ELSE 0))

\* The stage calls of the current run() that are calls of the LP solver
SolveCalls == SelectSeq(calls_, LAMBDA call : call.stage = "solve")

\* C36: whenever run() returns with the caller-visible scaled status OPTIMAL,
\* the last call of the LP solver in that run() was on context 0 and the
\* caller-visible status pair and Info are those of context 0; an optimal
\* reduced context is never what run() reports.
C36_OptimalIsOfContextZero ==
  ((run_.pc = "beforeReturnFromRun" \/ RunReturned)
     /\ scaled_model_status_ = OPTIMAL)
  => /\ Len(SolveCalls) \in {1, 2}
     /\ SolveCalls[Len(SolveCalls)] = Call("solve", original_hmo)
     /\ run_.solved_hmo = original_hmo
     /\ scaled_model_status_ = hmos_[original_hmo].scaled_model_status_
     /\ model_status_ = hmos_[original_hmo].unscaled_model_status_
     /\ info_ = hmos_[original_hmo].unscaled_solution_params_
     /\ info_.from = "solve_original"
     /\ (Len(SolveCalls) = 2 =>
           calls_ = <<PresolveCall, ReducedSolveCall, PostsolveCall,
                      HotStartCall>>)

\* run() has returned optimal after the reduced context was solved to
\* optimality, postsolved, and the original LP was solved again from there.
C36_Witness ==
  /\ RunReturned
  /\ scaled_model_status_ = OPTIMAL
  /\ run_.presolve_status = "Reduced"
  /\ Len(SolveCalls) = 2
  /\ run_.solved_hmo = original_hmo
  /\ info_.from = "solve_original"

\* The number of calls of the current run() that satisfy Test
NumberOfCalls(Test(_)) == Len(SelectSeq(calls_, Test))

\* The stage budget of a run(): one presolve, one postsolve, one solve of the
\* reduced context, one solve of context 0, the latter after the former only
\* when postsolve has recovered a solution in between
StageBudget ==
  /\ NumberOfCalls(LAMBDA call : call.stage = "presolve") <= 1
  /\ NumberOfCalls(LAMBDA call : call.stage = "postsolve") <= 1
  /\ NumberOfCalls(LAMBDA call : call.stage = "solve") <= 2
  /\ NumberOfCalls(LAMBDA call : call = ReducedSolveCall) <= 1
  /\ NumberOfCalls(LAMBDA call : call = Call("solve", original_hmo)) <= 1
  /\ \A i \in 1..Len(calls_) :
       calls_[i].stage = "solve" => calls_[i].hmo \in {original_hmo, 1}
  /\ (NumberOfCalls(LAMBDA call : call.stage = "solve") = 2 =>
        /\ calls_ = <<PresolveCall, ReducedSolveCall, PostsolveCall,
                      HotStartCall>>
        /\ run_.postsolve_status = "SolutionRecovered")

\* C37: if every external stage call returns, every run() terminates, and it
\* has invoked presolve at most once, postsolve at most once and the LP
\* solver at most twice, at most once on the reduced context and at most
\* once on context 0, with a second solver call only after postsolve has
\* recovered a solution.
C37_RunTerminatesWithinStageBudget ==
  /\ []StageBudget
  /\ (run_.pc # "idle") ~> (run_.pc = "idle")

\* run() has returned after spending its whole budget of stages
C37_Witness ==
  /\ RunReturned
  /\ run_.finalized = 1
  /\ calls_ = <<PresolveCall, ReducedSolveCall, PostsolveCall, HotStartCall>>
  /\ run_.postsolve_status = "SolutionRecovered"

\* run() has returned after going past the start of the run clock at lines
\* 415-416 (it has invoked at least one stage)
RunReturnedPastClockStart == RunReturned /\ Len(calls_) > 0

\* C38: run() leaves the run clock as it found it: when run() itself started
\* the clock (it was not running at entry and the model has a column), the
\* clock is stopped when run() returns, on every return path; and when the
\* clock was running at entry, it is still running when run() returns.
C38_RunClockLeftAsFound ==
  RunReturnedPastClockStart
  => timer_.run_clock_running = run_.run_highs_clock_already_running

\* run() started the run clock, the LP solver returned Error on the original
\* LP, and run() has returned Error with the clock still running.
C38_Witness ==
  /\ RunReturned
  /\ last_.status = Error
  /\ calls_ = <<Call("solve", original_hmo)>>
  /\ ~run_.run_highs_clock_already_running
  /\ run_.finalized = 1
  /\ timer_.run_clock_running

\* The run clock was running when run() was called, presolve failed, and
\* run() has returned with the clock stopped.
C38_StoppedAlthoughFoundRunning ==
  /\ RunReturned
  /\ calls_ = <<PresolveCall>>
  /\ run_.presolve_status \in {"OptionsError", "Error"}
  /\ run_.run_highs_clock_already_running
  /\ ~timer_.run_clock_running

\* What holds of the run clock: the returns after the harvest and those of
\* cases Infeasible and Unbounded leave it as found; the returns of cases
\* Timeout, OptionsError and default leave it the opposite of how it was
\* found; every other Error return leaves it running; and a run() that
\* returns before its first stage does not touch it.
C38_RunClockByReturnPath ==
  /\ []((RunReturnedPastClockStart /\ last_.status # Error
           /\ run_.presolve_status \notin {"Timeout", "OptionsError"})
        => timer_.run_clock_running = run_.run_highs_clock_already_running)
  /\ []((RunReturnedPastClockStart /\ calls_ = <<PresolveCall>>
           /\ run_.presolve_status
                \in {"Timeout", "OptionsError", "Error", "NullError"})
        => timer_.run_clock_running = ~run_.run_highs_clock_already_running)
  /\ []((RunReturnedPastClockStart /\ last_.status = Error
           /\ calls_ # <<PresolveCall>>)
        => timer_.run_clock_running)
  /\ []((RunReturnedPastClockStart /\ last_.status = Error
           /\ run_.presolve_status = "Reduced")
        => timer_.run_clock_running)
  /\ [][(run_.pc = "idle" /\ run_'.pc = "beforeReturnFromRun")
        => timer_' = timer_]_vars

\* The step on which passModel returns Error: the LP failed validation
PassModelRejects ==
  /\ Idle
  /\ Idle'
  /\ last_' = Returned("passModel", Error)

\* C39: a passModel whose LP fails validation returns Error and leaves the
\* instance unchanged: the model loaded before and its dimensions, the pool,
\* the caller-visible status pair, Solution and Basis are as before the call.
C39_RejectedLoadChangesNothing ==
  [][PassModelRejects
     => /\ lp_' = lp_
        /\ hmos_' = hmos_
        /\ model_status_' = model_status_
        /\ scaled_model_status_' = scaled_model_status_
        /\ solution_' = solution_
        /\ basis_' = basis_]_vars

\* passModel has returned Error, and the current model no longer has the
\* number of columns of the model that context 0 of the pool was solved for.
C39_Witness ==
  /\ last_ = Returned("passModel", Error)
  /\ run_.pc = "idle"
  /\ size(hmos_) = 1
  /\ hmos_[original_hmo].solution_.from = "solve_original"
  /\ hmos_[original_hmo].solution_.col_value # lp_.numCol_

\* What holds of a rejected load: all but the model itself is as before.
C39_RejectedLoadKeepsResults ==
  [][PassModelRejects
     => /\ hmos_' = hmos_
        /\ model_status_' = model_status_
        /\ scaled_model_status_' = scaled_model_status_
        /\ solution_' = solution_
        /\ basis_' = basis_
        /\ info_' = info_
        /\ options_' = options_
        /\ presolve_' = presolve_]_vars

\* getUseModelStatus has returned OK and nothing has been called since
UseModelStatusReturnedOK ==
  /\ Idle
  /\ last_.op = "getUseModelStatus"
  /\ last_.status = OK

\* C40: every getUseModelStatus that returns OK has assigned its output
\* use_model_status, the current unscaled model status or OPTIMAL, also when
\* the re-run it is allowed leaves the unscaled status NOTSET and the
\* repeated tolerance check fails.
C40_UseModelStatusAssignedOnOK ==
  UseModelStatusReturnedOK
  => /\ last_.out # "unassigned"
     /\ last_.out \in {model_status_, OPTIMAL}

\* getUseModelStatus has returned OK after its re-run left the unscaled
\* status NOTSET next to a scaled status OPTIMAL whose unscaled
\* infeasibilities exceed the tolerances, with use_model_status untouched.
C40_Witness ==
  /\ UseModelStatusReturnedOK
  /\ last_.ran
  /\ last_.rerun_from_logical_basis
  /\ model_status_ = NOTSET
  /\ scaled_model_status_ = OPTIMAL
  /\ ~unscaledOptimal(scaled_model_status_, info_, last_.primal_tolerance,
                      last_.dual_tolerance)
  /\ last_.out = "unassigned"

\* What holds of the output: it is assigned on every OK return without a
\* re-run, and after a re-run it is left unassigned exactly when the unscaled
\* status is still NOTSET and the repeated tolerance check fails.
C40_UseModelStatusAssignedElsewhere ==
  UseModelStatusReturnedOK
  => /\ (~last_.ran => last_.out \in {model_status_, OPTIMAL})
     /\ (last_.out = "unassigned"
           <=> /\ last_.ran
               /\ model_status_ = NOTSET
               /\ ~unscaledOptimal(scaled_model_status_, info_,
                                   last_.primal_tolerance,
                                   last_.dual_tolerance))
     /\ (last_.out # "unassigned" => last_.out \in {model_status_, OPTIMAL})

====
